---- MODULE Spec2Model ----
(***************************************************************************)
(* Model of the streamit commit log: the broker's Produce / Fetch path     *)
(* over LogDir, Segment and the idempotency tables.                        *)
(*                                                                         *)
(* One (topic, partition) is modelled for the broker; the idempotency      *)
(* tables are keyed by ProducerKey records.  Every call that runs under    *)
(* one mutex is one atomic step; a handler is a chain of such steps.       *)
(***************************************************************************)
EXTENDS Integers, Sequences, FiniteSets, TLC

(* ---------------------------------------------------------------------- *)
(* Bounds of the model                                                     *)
(* ---------------------------------------------------------------------- *)
NumThreads == 2
MaxCalls == 3
MaxSeq == 2
MaxRecords == 2
MaxIdemOps == 3
MaxBoundedOps == 3
MaxTime == 2
MaxFaults == 1
MaxFetchOffset == 3
NumIdemPartitions == 1
MaxAppends == 2
MaxReopens == 1
PartialBytes == 20
RecoverSegmentSize == 240
RecMaxOffset == 5
RecBases == {0, 3}
MaxRestarts == 1
SessionTimeoutMs == 2
MaxCommitOffset == 2
MaxSegments == 3
ManyMembers == 7
GroupIds == {"group1"}
MemberIds == {"member1", "member2"}
GroupTopics == {"topic1", "topic2"}

Threads == 1..NumThreads
Topic == "t"
Partition == 0
ProducerIds == {"", "p1"}
IdemProducers == {"p1", "p2"}

(* ---------------------------------------------------------------------- *)
(* Sizes of the on-disk structures                                         *)
(* ---------------------------------------------------------------------- *)
SegmentHeaderSize == 24
BatchOverhead == 24
RecordOverhead == 16
KeyLen == 4
ValueLen == 4
IndexEntrySize == 24

RecordSerializedSize == RecordOverhead + KeyLen + ValueLen
BatchSerializedSize(n) == BatchOverhead + n * RecordSerializedSize

\* segment sizes the LogDir is built with: room for exactly one, or exactly two,
\* one-record batches
SegmentSizes == {SegmentHeaderSize + BatchSerializedSize(1),
                 SegmentHeaderSize + 2 * BatchSerializedSize(1)}

(* ---------------------------------------------------------------------- *)
(* Error codes of the wire protocol and grpc statuses                      *)
(* ---------------------------------------------------------------------- *)
OK == "OK"
INVALID_ARGUMENT == "INVALID_ARGUMENT"
INTERNAL == "INTERNAL"
IDEMPOTENT_REPLAY == "IDEMPOTENT_REPLAY"
OFFSET_OUT_OF_RANGE == "OFFSET_OUT_OF_RANGE"

VARIABLES
    relock,             \* what locking a std::mutex twice from one thread does in this build
    table_,             \* IdempotencyTable::table_
    btable_,            \* BoundedIdempotencyTable::table_
    lru_queue_,         \* BoundedIdempotencyTable::lru_queue_
    now,                \* steady clock
    impl,               \* table under test in the table-only specification
    idemRet,            \* last call made on the table under test
    idemOps,            \* number of table calls made
    segment,            \* heap of Segment objects, by creation order
    files,              \* log files by segment number: position -> chunk
    max_segment_size_bytes_, \* LogDir::max_segment_size_bytes_
    segments_,          \* LogDir::segments_[topic][partition]: handles into the heap
    high_water_marks_,  \* LogDir::high_water_marks_[topic]: partition -> offset
    logdir_mutex,       \* LogDir::mutex_ owner, 0 when free
    faults,             \* write(2) failures injected so far
    pc, req, loc,       \* per worker thread: position, request, locals
    calls,              \* number of RPCs started
    history,            \* the calls that returned, in order of return: request, response, calls returned before it began
    log_file,           \* the .log file of the segment that is closed and opened again
    index_file,         \* its .index file: the entries it holds, in file order
    open_segment,       \* the Segment object over these two files, while one exists
    acked,              \* the batches Append has returned OK for, in order
    damage,             \* what happened to the files while no Segment object existed
    recRet,             \* the last call made on the segment
    groups_,            \* ConsumerGroupManager::groups_
    cgRet,              \* the last call made on the group manager
    cg_mutex,           \* ConsumerGroupManager::mutex_ owner, 0 when free
    cgpc, cgreq, cgloc, \* per thread calling the group manager: position, call, locals
    cg0,                \* the group table before the threads' calls began
    ldRet,              \* the last call made on the LogDir or on one of its segments
    ldLocked,           \* the segments whose mutex is held by a call that never returns
    lruLog              \* what the calls on the bounded table recorded and evicted so far

idemVars == <<table_, btable_, lru_queue_, now, impl, idemRet, idemOps>>
storeVars == <<segment, files, segments_, high_water_marks_, logdir_mutex, faults>>
rpcVars == <<pc, req, loc, calls, history>>
recVars == <<log_file, index_file, open_segment, acked, damage, recRet>>
cgVars == <<groups_, cgRet>>
cgThreadVars == <<cg_mutex, cgpc, cgreq, cgloc, cg0>>
ldVars == <<ldRet, ldLocked>>
lruVars == <<lruLog>>
otherVars == <<recVars, cgVars, cgThreadVars, ldVars, lruVars>>
vars == <<relock, max_segment_size_bytes_, otherVars, idemVars, storeVars, rpcVars>>

(* ---------------------------------------------------------------------- *)
(* Finite maps                                                             *)
(* ---------------------------------------------------------------------- *)
EmptyMap == << >>
MapPut(m, k, v) == [x \in (DOMAIN m) \cup {k} |-> IF x = k THEN v ELSE m[x]]
MapErase(m, ks) == [x \in (DOMAIN m) \ ks |-> m[x]]

SetMax(S) == CHOOSE x \in S : \A y \in S : y <= x

\* F applied to the value of v
With(v, F(_)) == CHOOSE x \in {F(w) : w \in {v}} : TRUE

(* ---------------------------------------------------------------------- *)
(* IdempotencyTable                                                        *)
(* ---------------------------------------------------------------------- *)
ProducerKey(producer_id, topic, partition) ==
    [producer_id |-> producer_id, topic |-> topic, partition |-> partition]

ProducerSequence(seq, offset) == [last_sequence |-> seq, last_offset |-> offset]

\* a variant that lets the cached sequence itself through
IsValidSequenceGeq(tbl, key, sequence) ==
    IF key \notin DOMAIN tbl THEN sequence = 0
    ELSE sequence >= tbl[key].last_sequence

IsValidSequence(tbl, key, sequence) ==
    IF key \notin DOMAIN tbl THEN sequence = 0
    ELSE sequence > tbl[key].last_sequence

UpdateSequence(tbl, key, sequence, offset) ==
    MapPut(tbl, key, ProducerSequence(sequence, offset))

GetLastSequence(tbl, key) ==
    IF key \notin DOMAIN tbl THEN -1 ELSE tbl[key].last_sequence

GetLastOffset(tbl, key) ==
    IF key \notin DOMAIN tbl THEN -1 ELSE tbl[key].last_offset

RemoveProducer(tbl, producer_id) ==
    MapErase(tbl, {k \in DOMAIN tbl : k.producer_id = producer_id})

(* ---------------------------------------------------------------------- *)
(* BoundedIdempotencyTable: TTL + LRU                                      *)
(* ---------------------------------------------------------------------- *)
max_entries_ == 2
ttl_ == 1

ProducerState(seq, offset, t) ==
    [last_sequence |-> seq, last_offset |-> offset, timestamp |-> t]

IsExpired(state, t) == t - state.timestamp > ttl_

\* std::remove + erase of a set of keys from the deque
RECURSIVE QueueRemove(_, _)
QueueRemove(q, ks) ==
    IF q = << >> THEN << >>
    ELSE IF Head(q) \in ks THEN QueueRemove(Tail(q), ks)
    ELSE <<Head(q)>> \o QueueRemove(Tail(q), ks)

\* the bounded table as a value: [table, lru]
Bounded(tbl, q) == [table |-> tbl, lru |-> q]

CleanupExpired(b, t) ==
    LET dead == {k \in DOMAIN b.table : IsExpired(b.table[k], t)}
    IN  Bounded(MapErase(b.table, dead), QueueRemove(b.lru, dead))

\* a variant that takes the most recently used entry
EvictNewest(b) ==
    IF b.lru = << >> THEN b
    ELSE Bounded(MapErase(b.table, {b.lru[Len(b.lru)]}), SubSeq(b.lru, 1, Len(b.lru) - 1))

EvictOldest(b) ==
    IF b.lru = << >> THEN b
    ELSE Bounded(MapErase(b.table, {Head(b.lru)}), Tail(b.lru))

\* while (table_.size() >= max_entries_) EvictOldest();
\* with an empty queue and a non-empty table the loop in the code does not end
RECURSIVE EvictToCapacity(_)
EvictToCapacity(b) ==
    IF Cardinality(DOMAIN b.table) >= max_entries_ /\ b.lru # << >>
    THEN EvictToCapacity(EvictOldest(b))
    ELSE b

UpdateLRU(q, key) == QueueRemove(q, {key}) \o <<key>>

\* a variant that does not discard the expired entries first
BoundedIsValidSequenceNoCleanup(b, key, sequence, t) ==
    [state |-> b,
     result |-> IF key \notin DOMAIN b.table THEN sequence = 0
                ELSE sequence > b.table[key].last_sequence]

BoundedIsValidSequence(b, key, sequence, t) ==
    LET c == CleanupExpired(b, t)
    IN  [state |-> c,
         result |-> IF key \notin DOMAIN c.table THEN sequence = 0
                    ELSE sequence > c.table[key].last_sequence]

BoundedUpdateSequence(b, key, sequence, offset, t) ==
    LET c == EvictToCapacity(CleanupExpired(b, t))
    IN  IF key \in DOMAIN c.table
        THEN Bounded(MapPut(c.table, key, ProducerState(sequence, offset, t)),
                     UpdateLRU(c.lru, key))
        ELSE Bounded(MapPut(c.table, key, ProducerState(sequence, offset, t)),
                     Append(c.lru, key))

BoundedRemoveProducer(b, producer_id) ==
    LET gone == {k \in DOMAIN b.table : k.producer_id = producer_id}
    IN  Bounded(MapErase(b.table, gone), QueueRemove(b.lru, gone))

BoundedClear == Bounded(EmptyMap, << >>)

(* ---------------------------------------------------------------------- *)
(* The tables driven call by call                                          *)
(* ---------------------------------------------------------------------- *)
IdemKeys == {ProducerKey(p, Topic, n) : p \in IdemProducers, n \in 0..(NumIdemPartitions - 1)}
IdemOffsets == {5}

NoCall == [op |-> "none"]

IdemCall(op, key, sequence, result) ==
    [op |-> op, key |-> key, sequence |-> sequence, result |-> result]

\* the table the calls go to, as the map of its entries
TableUnderTest == IF impl = "plain" THEN table_ ELSE btable_

IdemIsValidSequence(key, sequence) ==
    /\ idemOps < MaxIdemOps
    /\ idemOps' = idemOps + 1
    /\ IF impl = "plain"
       THEN /\ idemRet' = IdemCall("IsValidSequence", key, sequence,
                                   IsValidSequence(table_, key, sequence))
            /\ UNCHANGED <<table_, btable_, lru_queue_>>
       ELSE LET r == BoundedIsValidSequence(Bounded(btable_, lru_queue_), key, sequence, now)
            IN  /\ btable_' = r.state.table
                /\ lru_queue_' = r.state.lru
                /\ idemRet' = IdemCall("IsValidSequence", key, sequence, r.result)
                /\ UNCHANGED table_
    /\ UNCHANGED <<now, impl, relock, max_segment_size_bytes_, otherVars, storeVars, rpcVars>>

IdemUpdateSequence(key, sequence, offset) ==
    /\ idemOps < MaxIdemOps
    /\ idemOps' = idemOps + 1
    /\ IF impl = "plain"
       THEN /\ table_' = UpdateSequence(table_, key, sequence, offset)
            /\ idemRet' = IdemCall("UpdateSequence", key, sequence, TRUE)
            /\ UNCHANGED <<btable_, lru_queue_>>
       ELSE LET b == BoundedUpdateSequence(Bounded(btable_, lru_queue_), key, sequence, offset, now)
            IN  /\ btable_' = b.table
                /\ lru_queue_' = b.lru
                /\ idemRet' = IdemCall("UpdateSequence", key, sequence, TRUE)
                /\ UNCHANGED table_
    /\ UNCHANGED <<now, impl, relock, max_segment_size_bytes_, otherVars, storeVars, rpcVars>>

IdemRemoveProducer(producer_id) ==
    /\ idemOps < MaxIdemOps
    /\ idemOps' = idemOps + 1
    /\ IF impl = "plain"
       THEN /\ table_' = RemoveProducer(table_, producer_id)
            /\ idemRet' = IdemCall("RemoveProducer", producer_id, 0, TRUE)
            /\ UNCHANGED <<btable_, lru_queue_>>
       ELSE LET b == BoundedRemoveProducer(Bounded(btable_, lru_queue_), producer_id)
            IN  /\ btable_' = b.table
                /\ lru_queue_' = b.lru
                /\ idemRet' = IdemCall("RemoveProducer", producer_id, 0, TRUE)
                /\ UNCHANGED table_
    /\ UNCHANGED <<now, impl, relock, max_segment_size_bytes_, otherVars, storeVars, rpcVars>>

IdemClear ==
    /\ idemOps < MaxIdemOps
    /\ idemOps' = idemOps + 1
    /\ IF impl = "plain"
       THEN /\ table_' = EmptyMap
            /\ idemRet' = IdemCall("Clear", "", 0, TRUE)
            /\ UNCHANGED <<btable_, lru_queue_>>
       ELSE /\ btable_' = BoundedClear.table
            /\ lru_queue_' = BoundedClear.lru
            /\ idemRet' = IdemCall("Clear", "", 0, TRUE)
            /\ UNCHANGED table_
    /\ UNCHANGED <<now, impl, relock, max_segment_size_bytes_, otherVars, storeVars, rpcVars>>

\* the steady clock advances between calls
Tick ==
    /\ now < MaxTime
    /\ now' = now + 1
    /\ UNCHANGED <<table_, btable_, lru_queue_, impl, idemRet, idemOps>>
    /\ UNCHANGED <<relock, max_segment_size_bytes_, otherVars, storeVars, rpcVars>>

(* ---------------------------------------------------------------------- *)
(* Log files: position -> chunk written there, and the file length         *)
(* ---------------------------------------------------------------------- *)
HeaderChunk(base) ==
    [kind |-> "header", size |-> SegmentHeaderSize, base_offset |-> base, records |-> << >>]

\* RecordBatch::Serialize of a batch, as the chunk of bytes it produces
BatchChunk(base, records) ==
    [kind |-> "batch", size |-> BatchSerializedSize(Len(records)),
     base_offset |-> base, records |-> records]

Overlaps(p, n, q, m) == p < q + m /\ q < p + n

\* write(fd, ...) at the descriptor's offset: what it covers is overwritten
FileWrite(f, pos, chunk) ==
    LET kept == {p \in DOMAIN f.data : ~Overlaps(p, f.data[p].size, pos, chunk.size)}
    IN  [data |-> [p \in kept \cup {pos} |-> IF p = pos THEN chunk ELSE f.data[p]],
         size |-> IF pos + chunk.size > f.size THEN pos + chunk.size ELSE f.size]

\* open(O_CREAT | O_WRONLY | O_TRUNC), WriteHeader, then posix_fallocate to max_size
FileCreate(base, max_size) ==
    [data |-> MapPut(EmptyMap, 0, HeaderChunk(base)),
     size |-> IF max_size > SegmentHeaderSize THEN max_size ELSE SegmentHeaderSize]

(* ---------------------------------------------------------------------- *)
(* Segment                                                                 *)
(* ---------------------------------------------------------------------- *)
IndexEntry(rel, pos, size) ==
    [relative_offset |-> rel, file_position |-> pos, batch_size |-> size]

\* Segment::Segment(log_path, index_path, base_offset, max_size_bytes)
NewSegment(log_path, base, max_size) ==
    [log_path |-> log_path, base_offset |-> base, max_size_bytes |-> max_size,
     end_offset |-> base, closed |-> FALSE,
     log_position |-> SegmentHeaderSize,
     log_fd_offset |-> SegmentHeaderSize, log_fd_mode |-> "wronly",
     index_entries |-> << >>]

IsFull(s) == s.log_position >= s.max_size_bytes
IsClosed(s) == s.closed
EndOffset(s) == s.end_offset
BaseOffset(s) == s.base_offset

IoOutcomes == {"ok", "log_write_fails", "index_write_fails"}

Result(status, value, s, f) == [status |-> status, value |-> value, seg |-> s, file |-> f]

\* a variant that hands out the offset without advancing end_offset_
SegmentAppendNoAdvance(s, f, records, io) ==
    LET batch_size == BatchSerializedSize(Len(records))
    IN  IF s.closed THEN Result("FailedPrecondition", -1, s, f)
        ELSE IF records = << >> THEN Result(OK, s.end_offset, s, f)
        ELSE IF s.log_position + batch_size > s.max_size_bytes
        THEN Result("ResourceExhausted", -1, s, f)
        ELSE Result(OK, s.end_offset,
                    [s EXCEPT !.log_position = @ + batch_size,
                              !.log_fd_offset = @ + batch_size,
                              !.index_entries = Append(@, IndexEntry(s.end_offset - s.base_offset, s.log_position, batch_size))],
                    FileWrite(f, s.log_fd_offset, BatchChunk(s.end_offset, records)))

\* Segment::Append, under the segment mutex
SegmentAppend(s, f, records, io) ==
    LET batch_size == BatchSerializedSize(Len(records))
        written == [s EXCEPT !.log_position = @ + batch_size,
                             !.log_fd_offset = @ + batch_size]
        file == FileWrite(f, s.log_fd_offset, BatchChunk(s.end_offset, records))
        index_entry == IndexEntry(s.end_offset - s.base_offset,
                                  written.log_position - batch_size, batch_size)
    IN  IF s.closed THEN Result("FailedPrecondition", -1, s, f)
        ELSE IF records = << >> THEN Result(OK, s.end_offset, s, f)
        ELSE IF s.log_position + batch_size > s.max_size_bytes
        THEN Result("ResourceExhausted", -1, s, f)
        ELSE IF io = "log_write_fails" THEN Result(INTERNAL, -1, s, f)
        ELSE IF io = "index_write_fails" THEN Result(INTERNAL, -1, written, file)
        ELSE Result(OK, s.end_offset,
                    [written EXCEPT !.index_entries = Append(@, index_entry),
                                    !.end_offset = @ + Len(records)],
                    file)

\* std::lower_bound over index_entries_, then the test on the entry found
LowerBound(entries, rel) ==
    LET hits == {i \in 1..Len(entries) : entries[i].relative_offset >= rel}
    IN  IF hits = {} THEN Len(entries) + 1
        ELSE CHOOSE i \in hits : \A j \in hits : i <= j

\* index of the entry found in index_entries_, 0 for nullptr
FindIndexEntry(s, offset) ==
    LET rel == offset - s.base_offset
        it == LowerBound(s.index_entries, rel)
    IN  IF it <= Len(s.index_entries) /\ s.index_entries[it].relative_offset <= rel
        THEN it ELSE 0

\* Segment::ReadLogData followed by RecordBatch::Deserialize:
\* lseek moves the descriptor, read fails on a write-only descriptor
ReadLogData(s, f, position, size) ==
    IF s.log_fd_mode = "wronly"
    THEN [ok |-> FALSE, fd |-> position, batch |-> << >>]
    ELSE IF position + size > f.size
    THEN [ok |-> FALSE, fd |-> IF position > f.size THEN position ELSE f.size, batch |-> << >>]
    ELSE IF position \in DOMAIN f.data /\ f.data[position].size = size
            /\ f.data[position].kind = "batch"
    THEN [ok |-> TRUE, fd |-> position + size,
          batch |-> <<[base_offset |-> f.data[position].base_offset,
                       records |-> f.data[position].records]>>]
    ELSE [ok |-> FALSE, fd |-> position + size, batch |-> << >>]

\* the loop of Segment::Read from index entry i on; current_offset stays at
\* from_offset because the batch is moved from before its size is read
RECURSIVE ReadLoop(_, _, _, _, _, _, _)
ReadLoop(s, f, i, current_offset, bytes_read, max_bytes, batches) ==
    IF i > Len(s.index_entries) \/ current_offset >= s.end_offset
       \/ bytes_read + s.index_entries[i].batch_size > max_bytes
    THEN [status |-> OK, batches |-> batches, seg |-> s]
    ELSE LET entry == s.index_entries[i]
             r == ReadLogData(s, f, entry.file_position, entry.batch_size)
             moved == [s EXCEPT !.log_fd_offset = r.fd]
         IN  IF ~r.ok THEN [status |-> "DataLoss", batches |-> << >>, seg |-> moved]
             ELSE ReadLoop(moved, f, i + 1, current_offset,
                           bytes_read + entry.batch_size, max_bytes, batches \o r.batch)

\* Segment::Read, under the segment mutex
SegmentRead(s, f, from_offset, max_bytes) ==
    IF from_offset < s.base_offset \/ from_offset >= s.end_offset
    THEN [status |-> OK, batches |-> << >>, seg |-> s]
    ELSE IF FindIndexEntry(s, from_offset) = 0
    THEN [status |-> OK, batches |-> << >>, seg |-> s]
    ELSE ReadLoop(s, f, FindIndexEntry(s, from_offset), from_offset, 0, max_bytes, << >>)

(* ---------------------------------------------------------------------- *)
(* LogDir                                                                  *)
(* ---------------------------------------------------------------------- *)
\* a variant that reports where the last segment begins
GetEndOffsetOfBase(heap, segs) ==
    IF segs = << >> THEN 0 ELSE BaseOffset(heap[segs[Len(segs)]])

\* LogDir::GetEndOffset over a snapshot of the segment list
GetEndOffset(heap, segs) ==
    IF segs = << >> THEN 0 ELSE EndOffset(heap[segs[Len(segs)]])

GetNextSegmentNumber(heap, segs) ==
    IF segs = << >> THEN 0
    ELSE SetMax({0} \cup {BaseOffset(heap[segs[i]]) \div 1000 : i \in 1..Len(segs)}) + 1

Store(id, heap, fs, segs) == [id |-> id, segment |-> heap, files |-> fs, segments_ |-> segs]

\* LogDir::RollSegment with CreateSegment: a new Segment object, its file
\* created or truncated under the segment number, pushed on the list
RollSegment(heap, fs, segs, max_size) ==
    LET base_offset == GetEndOffset(heap, segs)
        segment_number == GetNextSegmentNumber(heap, segs)
        id == Len(heap) + 1
    IN  Store(id,
              Append(heap, NewSegment(segment_number, base_offset, max_size)),
              MapPut(fs, segment_number, FileCreate(base_offset, max_size)),
              Append(segs, id))

\* LogDir::GetSegment once it holds the mutex
GetSegment(heap, fs, segs, max_size) ==
    IF segs # << >> /\ ~IsFull(heap[segs[Len(segs)]]) /\ ~IsClosed(heap[segs[Len(segs)]])
    THEN Store(segs[Len(segs)], heap, fs, segs)
    ELSE RollSegment(heap, fs, segs, max_size)

\* LogDir::GetHighWaterMark
GetHighWaterMark(hwm) == IF Partition \in DOMAIN hwm THEN hwm[Partition] ELSE 0

\* a variant that only ever raises the stored value
\* LogDir::SetHighWaterMark
SetHighWaterMark(hwm, offset) == MapPut(hwm, Partition, offset)

(* ---------------------------------------------------------------------- *)
(* Broker RPC handlers, one worker thread per call                         *)
(* ---------------------------------------------------------------------- *)
NoReq == [op |-> "none", producer_id |-> "", sequence |-> 0, records |-> << >>,
          offset |-> 0, max_bytes |-> 0]
NoLoc == [seg |-> 0, base_offset |-> 0, started |-> 0, segments |-> << >>, i |-> 0,
          end_segments |-> << >>, batches |-> << >>, log_end |-> 0]
NoResp == [op |-> "none", status |-> OK, error_code |-> OK, base_offset |-> 0,
           batches |-> << >>, high_watermark |-> 0]

ProduceRequest(producer_id, sequence, records) ==
    [NoReq EXCEPT !.op = "Produce", !.producer_id = producer_id,
                  !.sequence = sequence, !.records = records]

FetchRequest(offset, max_bytes) ==
    [NoReq EXCEPT !.op = "Fetch", !.offset = offset, !.max_bytes = max_bytes]

\* the response message as protobuf builds it: unset fields keep their defaults
ProduceResponse(status, error_code, base_offset) ==
    [NoResp EXCEPT !.op = "Produce", !.status = status, !.error_code = error_code,
                   !.base_offset = base_offset]

FetchResponse(status, error_code, batches, high_watermark) ==
    [NoResp EXCEPT !.op = "Fetch", !.status = status, !.error_code = error_code,
                   !.batches = batches, !.high_watermark = high_watermark]

\* n records whose key and value carry the tag c
Records(c, n) == [i \in 1..n |-> <<c, i>>]

Returned(request, response, started) ==
    [req |-> request, resp |-> response, started |-> started]

\* the handler returns: its request and locals go away with its frame
Respond(t, request, r) ==
    /\ history' = Append(history, Returned(request, r, IF pc[t] = "idle" THEN Len(history) ELSE loc[t].started))
    /\ pc' = [pc EXCEPT ![t] = "idle"]
    /\ req' = [req EXCEPT ![t] = NoReq]
    /\ loc' = [loc EXCEPT ![t] = NoLoc]

\* end offset of the partition as the state has it
LogEnd == IF segments_ = << >> THEN 0 ELSE segment[segments_[Len(segments_)]].end_offset

\* Produce up to and including the idempotency check (broker_service.cc 30-47)
ProduceBegin(t, producer_id, sequence, records) ==
    LET r == ProduceRequest(producer_id, sequence, records)
        key == ProducerKey(producer_id, Topic, Partition)
    IN  /\ pc[t] = "idle"
        /\ calls < MaxCalls
        /\ calls' = calls + 1
        /\ IF records = << >>
           THEN Respond(t, r, ProduceResponse(INVALID_ARGUMENT, OK, 0))
           ELSE IF producer_id # "" /\ ~IsValidSequence(table_, key, sequence)
           THEN Respond(t, r, ProduceResponse(OK, IDEMPOTENT_REPLAY, 0))
           ELSE /\ pc' = [pc EXCEPT ![t] = "getseg"]
                /\ req' = [req EXCEPT ![t] = r]
                /\ loc' = [loc EXCEPT ![t] = [NoLoc EXCEPT !.started = Len(history)]]
                /\ UNCHANGED history
        /\ UNCHANGED <<relock, max_segment_size_bytes_, otherVars, idemVars, storeVars>>

\* log_dir_->GetSegment where the second lock of LogDir::mutex_ never returns
ProduceGetSegmentBlocks(t) ==
    /\ pc[t] = "getseg"
    /\ relock = "blocks"
    /\ logdir_mutex = 0
    /\ logdir_mutex' = t
    /\ pc' = [pc EXCEPT ![t] = "blocked"]
    /\ UNCHANGED <<relock, max_segment_size_bytes_, otherVars, idemVars, segment, files, segments_, high_water_marks_,
                   faults, req, loc, calls, history>>

\* log_dir_->GetSegment where the second lock is granted
ProduceGetSegment(t) ==
    LET g == GetSegment(segment, files, segments_, max_segment_size_bytes_)
    IN  /\ pc[t] = "getseg"
        /\ relock = "granted"
        /\ logdir_mutex = 0
        /\ segment' = g.segment
        /\ files' = g.files
        /\ segments_' = g.segments_
        /\ loc' = [loc EXCEPT ![t].seg = g.id]
        /\ pc' = [pc EXCEPT ![t] = "append"]
        /\ UNCHANGED <<relock, max_segment_size_bytes_, otherVars, idemVars, high_water_marks_, logdir_mutex, faults,
                       req, calls, history>>

\* segment->Append(records) and the error return (broker_service.cc 67-75)
ProduceAppend(t, io) ==
    LET s == segment[loc[t].seg]
        a == SegmentAppend(s, files[s.log_path], req[t].records, io)
    IN  /\ pc[t] = "append"
        /\ io # "ok" => faults < MaxFaults
        /\ faults' = IF io = "ok" THEN faults ELSE faults + 1
        /\ segment' = [segment EXCEPT ![loc[t].seg] = a.seg]
        /\ files' = [files EXCEPT ![s.log_path] = a.file]
        /\ IF a.status # OK
           THEN Respond(t, req[t], ProduceResponse(OK, INTERNAL, 0))
           ELSE /\ loc' = [loc EXCEPT ![t].base_offset = a.value]
                /\ pc' = [pc EXCEPT ![t] =
                            IF req[t].producer_id # "" THEN "update" ELSE "sethwm"]
                /\ UNCHANGED <<req, history>>
        /\ UNCHANGED <<relock, max_segment_size_bytes_, otherVars, idemVars, segments_, high_water_marks_, logdir_mutex,
                       calls>>

\* idempotency_table_->UpdateSequence (broker_service.cc 77-81)
ProduceUpdateSequence(t) ==
    /\ pc[t] = "update"
    /\ table_' = UpdateSequence(table_, ProducerKey(req[t].producer_id, Topic, Partition),
                                req[t].sequence, loc[t].base_offset)
    /\ pc' = [pc EXCEPT ![t] = "sethwm"]
    /\ UNCHANGED <<relock, max_segment_size_bytes_, otherVars, btable_, lru_queue_, now, impl, idemRet, idemOps,
                   storeVars, req, loc, calls, history>>

\* log_dir_->SetHighWaterMark and the OK response (broker_service.cc 83-92)
ProduceSetHighWaterMark(t) ==
    /\ pc[t] = "sethwm"
    /\ logdir_mutex = 0
    /\ high_water_marks_' = SetHighWaterMark(high_water_marks_,
                                             loc[t].base_offset + Len(req[t].records))
    /\ Respond(t, req[t], ProduceResponse(OK, OK, loc[t].base_offset))
    /\ UNCHANGED <<relock, max_segment_size_bytes_, otherVars, idemVars, segment, files, segments_, logdir_mutex, faults,
                   calls>>

FetchSizes == {0, BatchSerializedSize(1), 1048576}

\* Fetch up to the snapshot of the segment list (broker_service.cc 129-150)
FetchBegin(t, offset, max_bytes) ==
    /\ pc[t] = "idle"
    /\ calls < MaxCalls
    /\ calls' = calls + 1
    /\ max_bytes > 0 => logdir_mutex = 0
    /\ IF max_bytes <= 0
       THEN Respond(t, FetchRequest(offset, max_bytes), FetchResponse(INVALID_ARGUMENT, OK, << >>, 0))
       ELSE IF segments_ = << >>
       THEN Respond(t, FetchRequest(offset, max_bytes), FetchResponse(OK, OK, << >>, 0))
       ELSE /\ pc' = [pc EXCEPT ![t] = "scan"]
            /\ req' = [req EXCEPT ![t] = FetchRequest(offset, max_bytes)]
            /\ loc' = [loc EXCEPT ![t] = [NoLoc EXCEPT !.started = Len(history),
                                              !.segments = segments_, !.i = 1,
                                              !.log_end = LogEnd]]
            /\ UNCHANGED history
    /\ UNCHANGED <<relock, max_segment_size_bytes_, otherVars, idemVars, storeVars>>

\* one turn of the loop looking for the segment that holds the offset
FetchScan(t) ==
    LET l == loc[t]
        s == segment[l.segments[l.i]]
    IN  /\ pc[t] = "scan"
        /\ l.i <= Len(l.segments)
        /\ IF req[t].offset >= BaseOffset(s) /\ req[t].offset < EndOffset(s)
           THEN /\ loc' = [loc EXCEPT ![t].seg = l.segments[l.i]]
                /\ pc' = [pc EXCEPT ![t] = "read"]
           ELSE /\ loc' = [loc EXCEPT ![t].i = l.i + 1]
                /\ pc' = [pc EXCEPT ![t] = IF l.i + 1 > Len(l.segments)
                                           THEN "endsegments" ELSE "scan"]
        /\ UNCHANGED <<relock, max_segment_size_bytes_, otherVars, idemVars, storeVars, req, calls, history>>

\* no target: GetEndOffset takes its own snapshot of the list under the mutex
FetchGetEndSegments(t) ==
    /\ pc[t] = "endsegments"
    /\ logdir_mutex = 0
    /\ loc' = [loc EXCEPT ![t].end_segments = segments_]
    /\ pc' = [pc EXCEPT ![t] = "endoffset"]
    /\ UNCHANGED <<relock, max_segment_size_bytes_, otherVars, idemVars, storeVars, req, calls, history>>

\* ... reads EndOffset of its last segment, and Fetch answers OFFSET_OUT_OF_RANGE
FetchOutOfRange(t) ==
    /\ pc[t] = "endoffset"
    /\ Respond(t, req[t], FetchResponse(OK, OFFSET_OUT_OF_RANGE, << >>,
                                        GetEndOffset(segment, loc[t].end_segments)))
    /\ UNCHANGED <<relock, max_segment_size_bytes_, otherVars, idemVars, storeVars, calls>>

\* target_segment->Read and the error return (broker_service.cc 174-182)
FetchRead(t) ==
    LET s == segment[loc[t].seg]
        r == SegmentRead(s, files[s.log_path], req[t].offset, req[t].max_bytes)
    IN  /\ pc[t] = "read"
        /\ segment' = [segment EXCEPT ![loc[t].seg] = r.seg]
        /\ IF r.status # OK
           THEN Respond(t, req[t], FetchResponse(OK, INTERNAL, << >>, 0))
           ELSE /\ loc' = [loc EXCEPT ![t].batches = r.batches]
                /\ pc' = [pc EXCEPT ![t] = "gethwm"]
                /\ UNCHANGED <<req, history>>
        /\ UNCHANGED <<relock, max_segment_size_bytes_, otherVars, idemVars, files, segments_, high_water_marks_,
                       logdir_mutex, faults, calls>>

\* GetHighWaterMark and the OK response (broker_service.cc 184-207)
FetchGetHighWaterMark(t) ==
    /\ pc[t] = "gethwm"
    /\ logdir_mutex = 0
    /\ Respond(t, req[t], FetchResponse(OK, OK, loc[t].batches, GetHighWaterMark(high_water_marks_)))
    /\ UNCHANGED <<relock, max_segment_size_bytes_, otherVars, idemVars, storeVars, calls>>

(* ---------------------------------------------------------------------- *)
(* Specification of the broker                                             *)
(* ---------------------------------------------------------------------- *)
\* no segment is being closed and opened again
NoSegment == [open |-> FALSE]
NoDamage == [kind |-> "none", at |-> 0, reopens |-> 0]

RecIdle ==
    /\ log_file = [data |-> EmptyMap, size |-> 0]
    /\ index_file = << >>
    /\ open_segment = NoSegment
    /\ acked = << >>
    /\ damage = NoDamage
    /\ recRet = NoCall

\* no call has been made on the group manager
CgIdle ==
    /\ groups_ = EmptyMap
    /\ cgRet = NoCall

\* no call has been made on the LogDir from outside the broker service
LdIdle ==
    /\ ldRet = NoCall
    /\ ldLocked = {}

\* nothing was recorded in the bounded table yet: updated is the number of the
\* call that last updated each key, evicted the keys the last call evicted
\* for capacity, recorded the (key, sequence) pairs that were recorded and
\* not taken back by RemoveProducer or Clear, unordered the keys that were
\* given a sequence not above one recorded before
NoLruLog == [updated |-> EmptyMap, evicted |-> {}, recorded |-> {}, unordered |-> {}]

LruIdle == lruLog = NoLruLog

\* no thread is calling the group manager
CgThreadsIdle ==
    /\ cg_mutex = 0
    /\ cgpc = [t \in Threads |-> "idle"]
    /\ cgreq = [t \in Threads |-> NoCall]
    /\ cgloc = [t \in Threads |-> EmptyMap]
    /\ cg0 = EmptyMap

IdemInit ==
    /\ table_ = EmptyMap
    /\ btable_ = EmptyMap
    /\ lru_queue_ = << >>
    /\ now = 0
    /\ idemRet = NoCall
    /\ idemOps = 0

StoreInit ==
    /\ segment = << >>
    /\ files = EmptyMap
    /\ segments_ = << >>
    /\ high_water_marks_ = EmptyMap
    /\ logdir_mutex = 0
    /\ faults = 0

RpcInit ==
    /\ pc = [t \in Threads |-> "idle"]
    /\ req = [t \in Threads |-> NoReq]
    /\ loc = [t \in Threads |-> NoLoc]
    /\ calls = 0
    /\ history = << >>

Init ==
    /\ relock \in {"blocks", "granted"}
    /\ max_segment_size_bytes_ \in SegmentSizes
    /\ impl = "plain"
    /\ IdemInit
    /\ StoreInit
    /\ RpcInit
    /\ RecIdle
    /\ CgIdle
    /\ CgThreadsIdle
    /\ LdIdle
    /\ LruIdle

\* Produce calls with every producer id, sequence number and batch size
ProduceNext ==
    \/ \E t \in Threads, n \in 0..MaxRecords : ProduceBegin(t, "", 0, Records(0, n))
    \/ \E t \in Threads, p \in ProducerIds \ {""}, q \in 0..MaxSeq, n \in 1..MaxRecords :
         ProduceBegin(t, p, q, Records(0, n))
    \/ \E t \in Threads : ProduceGetSegmentBlocks(t)
    \/ \E t \in Threads : ProduceGetSegment(t)
    \/ \E t \in Threads, io \in IoOutcomes : ProduceAppend(t, io)
    \/ \E t \in Threads : ProduceUpdateSequence(t)
    \/ \E t \in Threads : ProduceSetHighWaterMark(t)

Next == ProduceNext

Spec == Init /\ [][Next]_vars

\* Fetch calls next to Produce calls that carry no producer id
FetchNext ==
    \/ \E t \in Threads, n \in 1..MaxRecords : ProduceBegin(t, "", 0, Records(calls + 1, n))
    \/ \E t \in Threads : ProduceGetSegmentBlocks(t)
    \/ \E t \in Threads : ProduceGetSegment(t)
    \/ \E t \in Threads : ProduceAppend(t, "ok")
    \/ \E t \in Threads : ProduceSetHighWaterMark(t)
    \/ \E t \in Threads, o \in 0..MaxFetchOffset, m \in FetchSizes : FetchBegin(t, o, m)
    \/ \E t \in Threads : FetchScan(t)
    \/ \E t \in Threads : FetchGetEndSegments(t)
    \/ \E t \in Threads : FetchOutOfRange(t)
    \/ \E t \in Threads : FetchRead(t)
    \/ \E t \in Threads : FetchGetHighWaterMark(t)

SpecFetch == Init /\ [][FetchNext]_vars

\* the broker process is stopped with no call in flight and main runs again on
\* the same log directory: a LogDir from its constructor, a new
\* IdempotencyTable, the files as they were left
Restart ==
    /\ \A t \in Threads : pc[t] = "idle"
    /\ Cardinality({i \in 1..Len(history) : history[i].req.op = "Restart"}) < MaxRestarts
    /\ segment' = << >>
    /\ segments_' = << >>
    /\ high_water_marks_' = EmptyMap
    /\ logdir_mutex' = 0
    /\ table_' = EmptyMap
    /\ history' = Append(history, Returned([op |-> "Restart"], [log_end |-> LogEnd],
                                           Len(history)))
    /\ UNCHANGED <<relock, max_segment_size_bytes_, otherVars, files, faults>>
    /\ UNCHANGED <<btable_, lru_queue_, now, impl, idemRet, idemOps, pc, req, loc, calls>>

RestartNext == FetchNext \/ Restart

SpecRestart == Init /\ [][RestartNext]_vars

(* ---------------------------------------------------------------------- *)
(* Specification of the idempotency tables on their own                    *)
(* ---------------------------------------------------------------------- *)
IdemSpecInit ==
    /\ relock = "granted"
    /\ max_segment_size_bytes_ = SegmentHeaderSize + BatchSerializedSize(1)
    /\ impl \in {"plain", "bounded"}
    /\ IdemInit
    /\ StoreInit
    /\ RpcInit
    /\ RecIdle
    /\ CgIdle
    /\ CgThreadsIdle
    /\ LdIdle
    /\ LruIdle

IdemNext ==
    \/ \E k \in IdemKeys, q \in 0..MaxSeq : IdemIsValidSequence(k, q)
    \/ \E k \in IdemKeys, q \in 0..MaxSeq, o \in IdemOffsets : IdemUpdateSequence(k, q, o)
    \/ \E p \in IdemProducers : IdemRemoveProducer(p)
    \/ IdemClear
    \/ Tick

SpecIdem == IdemSpecInit /\ [][IdemNext]_vars

(* ---------------------------------------------------------------------- *)
(* The bounded table on its own, with a record of its calls                *)
(* ---------------------------------------------------------------------- *)
LruUnchanged ==
    UNCHANGED <<table_, impl, relock, max_segment_size_bytes_, recVars, cgVars, cgThreadVars,
                ldVars, storeVars, rpcVars>>

BtIsValidSequence(key, sequence) ==
    /\ idemOps < MaxBoundedOps
    /\ idemOps' = idemOps + 1
    /\ \E r \in {BoundedIsValidSequence(Bounded(btable_, lru_queue_), key, sequence, now)} :
         /\ btable_' = r.state.table
         /\ lru_queue_' = r.state.lru
         /\ idemRet' = IdemCall("IsValidSequence", key, sequence, r.result)
    /\ lruLog' = [lruLog EXCEPT !.evicted = {}]
    /\ UNCHANGED now
    /\ LruUnchanged

BtUpdateSequence(key, sequence, offset) ==
    /\ idemOps < MaxBoundedOps
    /\ idemOps' = idemOps + 1
    /\ \E c \in {CleanupExpired(Bounded(btable_, lru_queue_), now)} :
         \E b \in {BoundedUpdateSequence(Bounded(btable_, lru_queue_), key, sequence, offset, now)} :
           /\ btable_' = b.table
           /\ lru_queue_' = b.lru
           /\ lruLog' = [updated |-> MapPut(lruLog.updated, key, idemOps + 1),
                          evicted |-> DOMAIN c.table \ DOMAIN EvictToCapacity(c).table,
                          recorded |-> lruLog.recorded \cup {<<key, sequence>>},
                          unordered |-> lruLog.unordered \cup
                                          {k \in {key} : \E x \in lruLog.recorded :
                                                            x[1] = key /\ x[2] >= sequence}]
    /\ idemRet' = IdemCall("UpdateSequence", key, sequence, TRUE)
    /\ UNCHANGED now
    /\ LruUnchanged

BtRemoveProducer(producer_id) ==
    /\ idemOps < MaxBoundedOps
    /\ idemOps' = idemOps + 1
    /\ \E b \in {BoundedRemoveProducer(Bounded(btable_, lru_queue_), producer_id)} :
         /\ btable_' = b.table
         /\ lru_queue_' = b.lru
    /\ idemRet' = IdemCall("RemoveProducer", producer_id, 0, TRUE)
    /\ lruLog' = [lruLog EXCEPT !.evicted = {},
                                 !.recorded = {x \in @ : x[1].producer_id # producer_id},
                                 !.unordered = {k \in @ : k.producer_id # producer_id}]
    /\ UNCHANGED now
    /\ LruUnchanged

BtClear ==
    /\ idemOps < MaxBoundedOps
    /\ idemOps' = idemOps + 1
    /\ btable_' = BoundedClear.table
    /\ lru_queue_' = BoundedClear.lru
    /\ idemRet' = IdemCall("Clear", "", 0, TRUE)
    /\ lruLog' = [lruLog EXCEPT !.evicted = {}, !.recorded = {}, !.unordered = {}]
    /\ UNCHANGED now
    /\ LruUnchanged

BoundedInit ==
    /\ relock = "granted"
    /\ max_segment_size_bytes_ = SegmentHeaderSize + BatchSerializedSize(1)
    /\ impl = "bounded"
    /\ IdemInit
    /\ StoreInit
    /\ RpcInit
    /\ RecIdle
    /\ CgIdle
    /\ CgThreadsIdle
    /\ LdIdle
    /\ LruIdle

\* the first sequence number of a producer and the one after it
BoundedSeqs == {0, 1}

BoundedNext ==
    \/ \E k \in IdemKeys, q \in BoundedSeqs : BtIsValidSequence(k, q)
    \/ \E k \in IdemKeys, q \in BoundedSeqs, o \in IdemOffsets : BtUpdateSequence(k, q, o)
    \/ \E p \in IdemProducers : BtRemoveProducer(p)
    \/ BtClear
    \/ Tick

SpecBounded == BoundedInit /\ [][BoundedNext]_vars

(* ---------------------------------------------------------------------- *)
(* Bytes: integer fields, 32-bit words as four bytes, Crc32                *)
(* ---------------------------------------------------------------------- *)
\* the n bytes of an integer field, least significant first
RECURSIVE LittleEndian(_, _)
LittleEndian(v, n) ==
    IF n = 0 THEN << >> ELSE <<v % 256>> \o LittleEndian(v \div 256, n - 1)

RECURSIVE FromLittleEndian(_)
FromLittleEndian(bytes) ==
    IF bytes = << >> THEN 0 ELSE Head(bytes) + 256 * FromLittleEndian(Tail(bytes))

\* the operators of C on bytes and on 32-bit words, a word being its four
\* bytes, least significant first
XorBit(a, b, i) == (((a \div (2 ^ i)) % 2) + ((b \div (2 ^ i)) % 2)) % 2
XorByte(a, b) ==
    XorBit(a, b, 0) + 2 * XorBit(a, b, 1) + 4 * XorBit(a, b, 2) + 8 * XorBit(a, b, 3)
    + 16 * XorBit(a, b, 4) + 32 * XorBit(a, b, 5) + 64 * XorBit(a, b, 6)
    + 128 * XorBit(a, b, 7)
Xor32(x, y) ==
    CHOOSE w \in {[i \in 1..4 |-> XorByte(a[i], b[i])] : a \in {x}, b \in {y}} : TRUE
ShiftRight1(x) ==
    CHOOSE w \in {[i \in 1..4 |-> (a[i] \div 2) + (IF i < 4 THEN 128 * (a[i + 1] % 2) ELSE 0)] :
                    a \in {x}} : TRUE

\* 0xEDB88320
Polynomial == <<32, 131, 184, 237>>

RECURSIVE CrcBits(_, _)
CrcBits(crc, j) ==
    IF j = 0 THEN crc
    ELSE CHOOSE w \in {CrcBits(c, j - 1) :
                          c \in {IF crc[1] % 2 = 1 THEN Xor32(ShiftRight1(crc), Polynomial)
                                  ELSE ShiftRight1(crc)}} : TRUE

\* InitializeTable: entry i of crc_table
crc_table(i) == CrcBits(<<i, 0, 0, 0>>, 8)

\* the loop of Crc32::Compute from byte i of data on
RECURSIVE Crc32Update(_, _, _)
Crc32Update(crc, data, i) ==
    IF i > Len(data) THEN crc
    ELSE CHOOSE w \in {Crc32Update(c, data, i + 1) :
                          c \in {Xor32(crc_table(XorByte(crc[1], data[i])), <<crc[2], crc[3], crc[4], 0>>)}} :
             TRUE

\* Crc32::Compute
Crc32Compute(data) ==
    CHOOSE w \in {Xor32(Crc32Update(<<255, 255, 255, 255>>, d, 1), <<255, 255, 255, 255>>) :
                    d \in {data}} : TRUE

(* ---------------------------------------------------------------------- *)
(* The bytes of a log file                                                 *)
(* ---------------------------------------------------------------------- *)
\* the wall clock reading put in headers, batches and records
timestamp_ms == 1

\* 0xDEADBEEF
kMagic == <<239, 190, 173, 222>>
kVersion == 1

\* the key and the value of a record are its tag, padded to their length
FieldData(r, n) == [i \in 1..n |-> IF i <= Len(r) THEN r[i] ELSE 0]

\* Record::Serialize
RecordSerialize(r) ==
    LittleEndian(KeyLen, 4) \o FieldData(r, KeyLen)
        \o LittleEndian(ValueLen, 4) \o FieldData(r, ValueLen)
        \o LittleEndian(timestamp_ms, 8)

RECURSIVE RecordsSerialize(_)
RecordsSerialize(records) ==
    IF records = << >> THEN << >>
    ELSE RecordSerialize(Head(records)) \o RecordsSerialize(Tail(records))

\* what RecordBatch::ComputeCrc32 sums and RecordBatch::Serialize writes first
BatchData(base, records) ==
    LittleEndian(base, 8) \o LittleEndian(timestamp_ms, 8) \o LittleEndian(Len(records), 4)
        \o RecordsSerialize(records)

\* byte i of a chunk: a segment header, a serialized batch or the beginning
\* of one, or bytes written over the file from outside
ChunkByte(chunk, i) ==
    IF chunk.kind = "garbage" THEN 67
    ELSE IF chunk.kind = "header"
    THEN (LittleEndian(chunk.base_offset, 8) \o LittleEndian(timestamp_ms, 8)
            \o kMagic \o LittleEndian(kVersion, 4))[i]
    ELSE LET data == BatchData(chunk.base_offset, chunk.records)
         IN  IF i <= Len(data) THEN data[i] ELSE Crc32Compute(data)[i - Len(data)]

\* the byte at position p; what was never written reads as zero
FileByte(f, p) ==
    LET at == {q \in DOMAIN f.data : q <= p /\ p < q + f.data[q].size}
    IN  IF at = {} THEN 0
        ELSE LET q == CHOOSE q \in at : TRUE IN ChunkByte(f.data[q], p - q + 1)

\* pread(fd, buf, n, pos): short when the file ends before pos + n
Pread(f, pos, n) ==
    IF pos + n > f.size THEN [ok |-> FALSE, bytes |-> << >>]
    ELSE [ok |-> TRUE, bytes |-> [i \in 1..n |-> FileByte(f, pos + i - 1)]]

\* ftruncate(fd, size)
FileTruncate(f, size) ==
    LET kept == {q \in DOMAIN f.data : q < size}
    IN  [data |-> [q \in kept |->
                     IF q + f.data[q].size <= size THEN f.data[q]
                     ELSE [f.data[q] EXCEPT !.kind = IF @ = "garbage" THEN @ ELSE "partial",
                                            !.size = size - q]],
         size |-> size]

\* the index file after Preallocate: size / 1024 bytes of zeros
IndexFileCreate(max_size) ==
    [i \in 1..((max_size \div 1024) \div IndexEntrySize) |-> IndexEntry(0, 0, 0)]

\* write(index_fd_, &entry, sizeof(entry)) with the descriptor after k entries
IndexFileWrite(idx, k, entry) ==
    [i \in 1..(IF Len(idx) > k + 1 THEN Len(idx) ELSE k + 1) |->
        IF i = k + 1 THEN entry
        ELSE IF i <= Len(idx) THEN idx[i] ELSE IndexEntry(0, 0, 0)]

(* ---------------------------------------------------------------------- *)
(* Segment::Open and RecoverTail                                           *)
(* ---------------------------------------------------------------------- *)
\* RecordBatchHeader: u32 len, u32 crc32, i64 base_offset, as read from the file
RecordBatchHeaderSize == 16
RecordBatchHeader(bytes) ==
    [len |-> SubSeq(bytes, 1, 4), crc32 |-> SubSeq(bytes, 5, 8),
     base_offset |-> SubSeq(bytes, 9, 16)]

tail_scan_bytes == 65536
MaxBatchLen == 1048576
OpenMaxSizeBytes == 134217728
BytesPerRecordEstimate == 100

\* header.len > 1024 * 1024 || header.len == 0, on the four bytes of len
LenOutOfRange(len) ==
    \/ len[4] # 0
    \/ FromLittleEndian(SubSeq(len, 1, 3)) > MaxBatchLen
    \/ len = <<0, 0, 0, 0>>

\* the loop of RecoverTail from pos on
RECURSIVE RecoverScan(_, _, _, _, _, _)
RecoverScan(s, f, idx, k, pos, last_valid_pos) ==
    LET stop == [seg |-> s, index |-> idx, index_fd_offset |-> k,
                 last_valid_pos |-> last_valid_pos]
        Frame(read) ==
            LET header == RecordBatchHeader(read.bytes)
                len == FromLittleEndian(header.len)
                valid_end == pos + RecordBatchHeaderSize + len
                relative_offset == FromLittleEndian(header.base_offset) - s.base_offset
                found == \E i \in 1..Len(s.index_entries) :
                            s.index_entries[i].relative_offset = relative_offset
                index_entry == IndexEntry(relative_offset, pos, len)
            IN  IF ~read.ok THEN stop
                ELSE IF LenOutOfRange(header.len) THEN stop
                ELSE IF valid_end > f.size THEN stop
                ELSE IF Crc32Compute(Pread(f, pos + RecordBatchHeaderSize, len).bytes)
                          # header.crc32
                THEN stop
                ELSE IF found THEN RecoverScan(s, f, idx, k, valid_end, valid_end)
                ELSE RecoverScan([s EXCEPT !.index_entries = Append(@, index_entry)], f,
                                 IndexFileWrite(idx, k, index_entry), k + 1,
                                 valid_end, valid_end)
    IN  IF pos >= f.size THEN stop
        ELSE With(Pread(f, pos, RecordBatchHeaderSize), LAMBDA read : Frame(read))

\* Segment::RecoverTail
RecoverTail(s, f, idx, k) ==
    LET scan_start == IF f.size - tail_scan_bytes > SegmentHeaderSize
                      THEN f.size - tail_scan_bytes ELSE SegmentHeaderSize
        Recovered(scan) ==
            LET entries == scan.seg.index_entries
                end_offset == IF entries # << >>
                              THEN s.base_offset + entries[Len(entries)].relative_offset + 1
                              ELSE s.end_offset
            IN  IF scan.last_valid_pos < f.size
                THEN [seg |-> [scan.seg EXCEPT !.log_position = scan.last_valid_pos,
                                               !.end_offset = end_offset],
                      file |-> FileTruncate(f, scan.last_valid_pos),
                      index |-> scan.index, index_fd_offset |-> scan.index_fd_offset]
                ELSE [seg |-> scan.seg, file |-> f,
                      index |-> scan.index, index_fd_offset |-> scan.index_fd_offset]
    IN  IF f.size < SegmentHeaderSize
        THEN [seg |-> s, file |-> f, index |-> idx, index_fd_offset |-> k]
        ELSE With(RecoverScan(s, f, idx, k, scan_start, SegmentHeaderSize),
                  LAMBDA scan : Recovered(scan))

\* Segment::Open with the constructor it calls: LoadIndexEntries takes every
\* whole entry of the index file, both descriptors are left at the end
SegmentOpen(log_path, f, idx) ==
    IF f.size < SegmentHeaderSize \/ 0 \notin DOMAIN f.data
    THEN [status |-> "DataLoss"]
    ELSE IF f.data[0].kind # "header" THEN [status |-> "DataLoss"]
    ELSE LET base_offset == f.data[0].base_offset
             end_offset == base_offset + (f.size - SegmentHeaderSize) \div BytesPerRecordEstimate
             Opened(r) == [status |-> OK, seg |-> r.seg, file |-> r.file, index |-> r.index,
                           index_fd_offset |-> r.index_fd_offset]
         IN  With([log_path |-> log_path, base_offset |-> base_offset,
                   max_size_bytes |-> OpenMaxSizeBytes,
                   end_offset |-> end_offset, closed |-> FALSE,
                   log_position |-> f.size,
                   log_fd_offset |-> f.size, log_fd_mode |-> "rdwr",
                   index_entries |-> idx],
                  LAMBDA s : With(RecoverTail(s, f, idx, Len(idx)), LAMBDA r : Opened(r)))

(* ---------------------------------------------------------------------- *)
(* One segment that is written, abandoned, damaged and opened again        *)
(* ---------------------------------------------------------------------- *)
\* the positions of the batches that lie whole inside the log file f
Frames(f) ==
    {q \in DOMAIN f.data : f.data[q].kind = "batch" /\ q + f.data[q].size <= f.size}

\* Segment::Append on the open segment, with the index entry going to the index file
RecAppend(n, io) ==
    /\ open_segment.open
    /\ Len(acked) < MaxAppends
    /\ io # "ok" => faults < MaxFaults
    /\ faults' = IF io = "ok" THEN faults ELSE faults + 1
    /\ LET s == open_segment.seg
           records == Records(Len(acked) + 1, n)
           r == SegmentAppend(s, log_file, records, io)
           indexed == Len(r.seg.index_entries) > Len(s.index_entries)
       IN  /\ log_file' = r.file
           /\ index_file' = IF indexed
                            THEN IndexFileWrite(index_file, open_segment.index_fd_offset,
                                                r.seg.index_entries[Len(r.seg.index_entries)])
                            ELSE index_file
           /\ open_segment' = [open_segment EXCEPT
                                 !.seg = r.seg,
                                 !.index_fd_offset = IF indexed THEN @ + 1 ELSE @]
           /\ acked' = IF r.status = OK
                       THEN Append(acked, [base_offset |-> r.value, records |-> records])
                       ELSE acked
           /\ recRet' = [op |-> "Append", status |-> r.status, value |-> r.value]
    /\ UNCHANGED <<damage, segment, files, segments_, high_water_marks_, logdir_mutex>>
    /\ UNCHANGED <<relock, max_segment_size_bytes_, cgVars, cgThreadVars, ldVars, lruVars, idemVars, rpcVars>>

\* Segment::Read on the open segment
RecRead(from_offset, max_bytes) ==
    /\ open_segment.open
    /\ LET r == SegmentRead(open_segment.seg, log_file, from_offset, max_bytes)
       IN  /\ open_segment' = [open_segment EXCEPT !.seg = r.seg]
           /\ recRet' = [op |-> "Read", status |-> r.status, from_offset |-> from_offset,
                         batches |-> r.batches]
    /\ UNCHANGED <<log_file, index_file, acked, damage>>
    /\ UNCHANGED <<relock, max_segment_size_bytes_, cgVars, cgThreadVars, ldVars, lruVars, idemVars, storeVars, rpcVars>>

\* the process ends, in the middle of the write of one more batch when partial > 0
RecCrash(partial) ==
    /\ open_segment.open
    /\ damage.reopens < MaxReopens
    /\ open_segment' = NoSegment
    /\ log_file' = IF partial > 0
                   THEN FileWrite(log_file, open_segment.seg.log_fd_offset,
                                  [BatchChunk(open_segment.seg.end_offset,
                                              Records(Len(acked) + 1, 1))
                                     EXCEPT !.kind = "partial", !.size = partial])
                   ELSE log_file
    /\ damage' = [damage EXCEPT !.kind = IF partial > 0 THEN "partial" ELSE "none",
                                !.at = open_segment.seg.log_fd_offset]
    /\ recRet' = [op |-> "Crash"]
    /\ UNCHANGED <<index_file, acked>>
    /\ UNCHANGED <<relock, max_segment_size_bytes_, cgVars, cgThreadVars, ldVars, lruVars, idemVars, storeVars, rpcVars>>

\* the batch at position q of the closed log file is overwritten from outside
RecCorrupt(q) ==
    /\ ~open_segment.open
    /\ damage.kind = "none"
    /\ q \in Frames(log_file)
    /\ log_file' = FileWrite(log_file, q, [kind |-> "garbage", size |-> log_file.data[q].size,
                                            base_offset |-> 0, records |-> << >>])
    /\ damage' = [damage EXCEPT !.kind = "corrupt", !.at = q]
    /\ recRet' = [op |-> "Corrupt"]
    /\ UNCHANGED <<index_file, open_segment, acked>>
    /\ UNCHANGED <<relock, max_segment_size_bytes_, cgVars, cgThreadVars, ldVars, lruVars, idemVars, storeVars, rpcVars>>

\* the closed index file is changed from outside
RecAlterIndex(how) ==
    /\ ~open_segment.open
    /\ damage.kind = "none"
    /\ index_file # << >>
    /\ index_file' =
         IF how = "emptied" THEN << >>
         ELSE IF how = "last_dropped" THEN SubSeq(index_file, 1, Len(index_file) - 1)
         ELSE [index_file EXCEPT ![1].file_position = @ + 1]
    /\ damage' = [damage EXCEPT !.kind = "index"]
    /\ recRet' = [op |-> "AlterIndex"]
    /\ UNCHANGED <<log_file, open_segment, acked>>
    /\ UNCHANGED <<relock, max_segment_size_bytes_, cgVars, cgThreadVars, ldVars, lruVars, idemVars, storeVars, rpcVars>>

\* Segment::Open on the two files
RecOpen ==
    /\ ~open_segment.open
    /\ \E r \in {SegmentOpen(0, log_file, index_file)} :
           IF r.status = OK
           THEN /\ open_segment' = [open |-> TRUE, seg |-> r.seg,
                                    index_fd_offset |-> r.index_fd_offset]
                /\ log_file' = r.file
                /\ index_file' = r.index
                /\ recRet' = [op |-> "Open", status |-> OK]
           ELSE /\ recRet' = [op |-> "Open", status |-> r.status]
                /\ UNCHANGED <<open_segment, log_file, index_file>>
    /\ damage' = [damage EXCEPT !.reopens = @ + 1]
    /\ UNCHANGED acked
    /\ UNCHANGED <<relock, max_segment_size_bytes_, cgVars, cgThreadVars, ldVars, lruVars, idemVars, storeVars, rpcVars>>

\* a segment newly constructed with the four-argument constructor
RecInit ==
    /\ relock = "granted"
    /\ max_segment_size_bytes_ = RecoverSegmentSize
    /\ impl = "plain"
    /\ IdemInit
    /\ StoreInit
    /\ RpcInit
    /\ \E base \in RecBases :
         /\ log_file = FileCreate(base, RecoverSegmentSize)
         /\ open_segment = [open |-> TRUE, seg |-> NewSegment(0, base, RecoverSegmentSize),
                            index_fd_offset |-> 0]
    /\ index_file = IndexFileCreate(RecoverSegmentSize)
    /\ acked = << >>
    /\ damage = NoDamage
    /\ recRet = NoCall
    /\ CgIdle
    /\ CgThreadsIdle
    /\ LdIdle
    /\ LruIdle

RecNext ==
    \/ \E n \in 1..MaxRecords, io \in {"ok", "index_write_fails"} : RecAppend(n, io)
    \/ \E o \in 0..RecMaxOffset : RecRead(o, 1048576)
    \/ \E partial \in {0, PartialBytes} : RecCrash(partial)
    \/ \E q \in DOMAIN log_file.data : RecCorrupt(q)
    \/ \E how \in {"emptied", "last_dropped", "first_moved"} : RecAlterIndex(how)
    \/ RecOpen

SpecRecover == RecInit /\ [][RecNext]_vars

(* ---------------------------------------------------------------------- *)
(* Consumer group manager                                                  *)
(* ---------------------------------------------------------------------- *)
\* topics is the set of the strings in the vector a member subscribed with
ConsumerMember(member_id, topics) ==
    [member_id |-> member_id, topics |-> topics, last_heartbeat |-> now, active |-> TRUE]

ConsumerGroup(group_id) ==
    [group_id |-> group_id, members |-> << >>, assignments |-> EmptyMap,
     committed_offsets |-> EmptyMap, last_rebalance |-> 0]

PartitionAssignment(topic, partitions) == [topic |-> topic, partitions |-> partitions]

\* the partitions AssignPartitions gives every topic
partitions == <<0, 1, 2, 3, 4, 5>>

\* the orders in which an unordered_set of topics can be iterated
TopicOrders == {o \in [1..Cardinality(GroupTopics) -> GroupTopics] :
                  \A i, j \in DOMAIN o : i # j => o[i] # o[j]}

\* a member is kept until its session timeout has passed
IsMemberActiveAtTimeout(member) ==
    member.active /\ now - member.last_heartbeat <= SessionTimeoutMs

IsMemberActive(member) ==
    member.active /\ now - member.last_heartbeat < SessionTimeoutMs

GetGroupTopics(group) ==
    UNION {group.members[i].topics : i \in DOMAIN group.members}

MemberIndex(group, member_id) ==
    {i \in DOMAIN group.members : group.members[i].member_id = member_id}

\* every member is given every partition
AssignEveryPartitionToAll(group, order) ==
    [id \in {group.members[i].member_id : i \in DOMAIN group.members} |->
       [k \in 1..(Cardinality(GetGroupTopics(group)) * Len(partitions)) |->
          PartitionAssignment(SelectSeq(order, LAMBDA t : t \in GetGroupTopics(group))
                                [((k - 1) \div Len(partitions)) + 1],
                              <<partitions[((k - 1) % Len(partitions)) + 1]>>)]]

AssignPartitions(group, order) ==
    IF group.members = << >> THEN EmptyMap
    ELSE LET topics == SelectSeq(order, LAMBDA t : t \in GetGroupTopics(group))
             n == Len(group.members)
             count == Len(topics) * Len(partitions)
             \* the member that member_index k selects
             member(k) == group.members[(k % n) + 1].member_id
             slot(k) == PartitionAssignment(topics[(k \div Len(partitions)) + 1],
                                            <<partitions[(k % Len(partitions)) + 1]>>)
             slots == [k \in 1..count |-> k - 1]
         IN  [id \in {member(k) : k \in 0..(count - 1)} |->
                [i \in 1..Cardinality({k \in 0..(count - 1) : member(k) = id}) |->
                   slot(SelectSeq(slots, LAMBDA k : member(k) = id)[i])]]

NeedsRebalancing(tbl, group_id) ==
    IF group_id \notin DOMAIN tbl THEN FALSE
    ELSE LET group == tbl[group_id]
         IN  IF \E i \in DOMAIN group.members : ~IsMemberActive(group.members[i]) THEN TRUE
             ELSE IF group.members = << >> THEN FALSE
             ELSE \E i \in DOMAIN group.members :
                     group.members[i].member_id \notin DOMAIN group.assignments

RebalanceGroup(tbl, group_id, order) ==
    IF group_id \notin DOMAIN tbl
    THEN [status |-> "NOT_FOUND", groups |-> tbl]
    ELSE LET members == SelectSeq(tbl[group_id].members, IsMemberActive)
             group == [tbl[group_id] EXCEPT !.members = members]
         IN  [status |-> OK,
              groups |-> [tbl EXCEPT ![group_id] =
                            IF members = << >>
                            THEN [group EXCEPT !.assignments = EmptyMap]
                            ELSE [group EXCEPT !.assignments = AssignPartitions(group, order),
                                               !.last_rebalance = now]]]

\* the table after the rebalance a handler ends with
RebalanceIfNeeded(tbl, group_id, order) ==
    IF NeedsRebalancing(tbl, group_id) THEN RebalanceGroup(tbl, group_id, order).groups ELSE tbl

GetAssignments(tbl, group_id, member_id) ==
    IF group_id \notin DOMAIN tbl THEN [status |-> "NOT_FOUND", value |-> << >>]
    ELSE IF member_id \notin DOMAIN tbl[group_id].assignments
         THEN [status |-> OK, value |-> << >>]
         ELSE [status |-> OK, value |-> tbl[group_id].assignments[member_id]]

\* a commit that makes the group when it is not there
CommitOffsetCreatingGroup(tbl, group_id, topic, partition, offset) ==
    [status |-> OK,
     groups |-> MapPut(tbl, group_id,
                       [(IF group_id \in DOMAIN tbl THEN tbl[group_id] ELSE ConsumerGroup(group_id))
                          EXCEPT !.committed_offsets = MapPut(@, topic, MapPut(EmptyMap, partition, offset))])]

\* a commit that keeps one offset for a topic, whatever the partition
CommitOffsetPerTopic(tbl, group_id, topic, partition, offset) ==
    IF group_id \notin DOMAIN tbl THEN [status |-> "NOT_FOUND", groups |-> tbl]
    ELSE [status |-> OK,
          groups |-> [tbl EXCEPT ![group_id].committed_offsets =
                        MapPut(@, topic, [q \in {0, partition} |-> offset])]]

CommitOffset(tbl, group_id, topic, partition, offset) ==
    IF group_id \notin DOMAIN tbl THEN [status |-> "NOT_FOUND", groups |-> tbl]
    ELSE [status |-> OK,
          groups |-> [tbl EXCEPT ![group_id].committed_offsets =
                        MapPut(@, topic,
                               MapPut(IF topic \in DOMAIN @ THEN @[topic] ELSE EmptyMap,
                                      partition, offset))]]

GetCommittedOffset(tbl, group_id, topic, partition) ==
    IF group_id \notin DOMAIN tbl THEN [status |-> "NOT_FOUND", value |-> 0]
    ELSE IF topic \notin DOMAIN tbl[group_id].committed_offsets THEN [status |-> OK, value |-> 0]
    ELSE IF partition \notin DOMAIN tbl[group_id].committed_offsets[topic]
         THEN [status |-> OK, value |-> 0]
    ELSE [status |-> OK, value |-> tbl[group_id].committed_offsets[topic][partition]]

\* CoordinatorServiceImpl::ValidateCommitOffsetRequest
ValidateCommitOffsetRequest(request) ==
    IF request.group = "" THEN INVALID_ARGUMENT
    ELSE IF request.topic = "" THEN INVALID_ARGUMENT
    ELSE IF request.partition < 0 THEN INVALID_ARGUMENT
    ELSE IF request.offset < 0 THEN INVALID_ARGUMENT
    ELSE OK

ListGroups(tbl) == DOMAIN tbl

CgUnchanged ==
    UNCHANGED <<relock, max_segment_size_bytes_, recVars, cgThreadVars, ldVars, lruVars, idemVars, storeVars, rpcVars>>

\* the group table when JoinGroup releases the mutex
JoinGroupBody(tbl0, group_id, member_id, topics, order) ==
    CHOOSE x \in
      {RebalanceIfNeeded(joined, group_id, order) :
         joined \in
           {[tbl EXCEPT ![group_id].members =
               IF MemberIndex(tbl[group_id], member_id) # {}
               THEN [i \in DOMAIN @ |->
                       IF @[i].member_id = member_id
                       THEN [@[i] EXCEPT !.topics = topics, !.last_heartbeat = now,
                                         !.active = TRUE]
                       ELSE @[i]]
               ELSE Append(@, ConsumerMember(member_id, topics))] :
              tbl \in {IF group_id \in DOMAIN tbl0 THEN tbl0
                       ELSE MapPut(tbl0, group_id, ConsumerGroup(group_id))}}} : TRUE

\* the group table when LeaveGroup releases the mutex
LeaveGroupBody(tbl, group_id, member_id, order) ==
    IF group_id \notin DOMAIN tbl THEN tbl
    ELSE CHOOSE x \in
           {RebalanceIfNeeded(left, group_id, order) :
              left \in {[tbl EXCEPT ![group_id].members =
                           SelectSeq(@, LAMBDA m : m.member_id # member_id)]}} : TRUE

\* the group table when Heartbeat releases the mutex
HeartbeatBody(tbl, group_id, member_id) ==
    IF group_id \notin DOMAIN tbl \/ MemberIndex(tbl[group_id], member_id) = {} THEN tbl
    ELSE [tbl EXCEPT ![group_id].members =
            [i \in DOMAIN @ |->
               IF @[i].member_id = member_id
               THEN [@[i] EXCEPT !.last_heartbeat = now, !.active = TRUE]
               ELSE @[i]]]

\* the group table when CleanupInactiveMembers releases the mutex
CleanupBody(tbl, orders) ==
    [g \in DOMAIN tbl |->
       RebalanceIfNeeded([tbl EXCEPT ![g].members = SelectSeq(@, IsMemberActive)],
                         g, orders[g])[g]]

JoinGroup(group_id, member_id, topics, order) ==
    /\ groups_' = JoinGroupBody(groups_, group_id, member_id, topics, order)
    /\ cgRet' = [op |-> "JoinGroup", group_id |-> group_id, member_id |-> member_id,
                 topics |-> topics, status |-> OK]
    /\ CgUnchanged

LeaveGroup(group_id, member_id, order) ==
    /\ groups_' = LeaveGroupBody(groups_, group_id, member_id, order)
    /\ cgRet' = [op |-> "LeaveGroup", group_id |-> group_id, member_id |-> member_id,
                 status |-> IF group_id \notin DOMAIN groups_ THEN "NOT_FOUND" ELSE OK]
    /\ CgUnchanged

Heartbeat(group_id, member_id) ==
    /\ groups_' = HeartbeatBody(groups_, group_id, member_id)
    /\ cgRet' = [op |-> "Heartbeat", group_id |-> group_id, member_id |-> member_id,
                 status |-> IF \/ group_id \notin DOMAIN groups_
                               \/ MemberIndex(groups_[group_id], member_id) = {}
                            THEN "NOT_FOUND" ELSE OK]
    /\ CgUnchanged

\* RebalanceGroup called from outside the class, between the other calls
CallRebalanceGroup(group_id, order) ==
    /\ \E r \in {RebalanceGroup(groups_, group_id, order)} :
         /\ groups_' = r.groups
         /\ cgRet' = [op |-> "RebalanceGroup", group_id |-> group_id, status |-> r.status]
    /\ CgUnchanged

\* removed: the members this call took out of each group
CleanupInactiveMembers(orders) ==
    /\ groups_' = CleanupBody(groups_, orders)
    /\ cgRet' = [op |-> "CleanupInactiveMembers",
                 removed |-> UNION {{<<g, groups_[g].members[i].member_id>> :
                                       i \in {j \in DOMAIN groups_[g].members :
                                                ~IsMemberActive(groups_[g].members[j])}} :
                                    g \in DOMAIN groups_}]
    /\ CgUnchanged

\* ConsumerGroupManager::CommitOffset
CallCommitOffset(group_id, topic, partition, offset) ==
    /\ \E r \in {CommitOffset(groups_, group_id, topic, partition, offset)} :
         /\ groups_' = r.groups
         /\ cgRet' = [op |-> "CommitOffset", group_id |-> group_id, topic |-> topic,
                       partition |-> partition, offset |-> offset, status |-> r.status]
    /\ CgUnchanged

\* ConsumerGroupManager::GetCommittedOffset has no effect on the table
CallGetCommittedOffset(group_id, topic, partition) ==
    /\ \E r \in {GetCommittedOffset(groups_, group_id, topic, partition)} :
         cgRet' = [op |-> "GetCommittedOffset", group_id |-> group_id, topic |-> topic,
                   partition |-> partition, status |-> r.status, value |-> r.value]
    /\ UNCHANGED groups_
    /\ CgUnchanged

\* the CommitOffset RPC of the coordinator service
ServiceCommitOffset(request) ==
    /\ IF ValidateCommitOffsetRequest(request) # OK
       THEN /\ cgRet' = [op |-> "Coordinator.CommitOffset", group_id |-> request.group,
                         topic |-> request.topic, partition |-> request.partition,
                         offset |-> request.offset,
                         status |-> ValidateCommitOffsetRequest(request)]
            /\ UNCHANGED groups_
       ELSE \E r \in {CommitOffset(groups_, request.group, request.topic, request.partition,
                                   request.offset)} :
              /\ groups_' = r.groups
              /\ cgRet' = [op |-> "Coordinator.CommitOffset", group_id |-> request.group,
                            topic |-> request.topic, partition |-> request.partition,
                            offset |-> request.offset,
                            status |-> IF r.status = OK THEN OK ELSE INTERNAL]
    /\ CgUnchanged

GroupInit ==
    /\ relock = "granted"
    /\ max_segment_size_bytes_ = RecoverSegmentSize
    /\ impl = "plain"
    /\ IdemInit
    /\ StoreInit
    /\ RpcInit
    /\ RecIdle
    /\ CgIdle
    /\ CgThreadsIdle
    /\ LdIdle
    /\ LruIdle

GroupNext ==
    \/ \E g \in GroupIds, m \in MemberIds, t \in SUBSET GroupTopics, o \in TopicOrders :
         JoinGroup(g, m, t, o)
    \/ \E g \in GroupIds, m \in MemberIds, o \in TopicOrders : LeaveGroup(g, m, o)
    \/ \E g \in GroupIds, m \in MemberIds : Heartbeat(g, m)
    \/ \E g \in GroupIds, o \in TopicOrders : CallRebalanceGroup(g, o)
    \/ \E orders \in [GroupIds -> TopicOrders] : CleanupInactiveMembers(orders)
    \/ Tick

SpecGroup == GroupInit /\ [][GroupNext]_vars

\* the member ids of a group that grows past the partitions of a topic
MemberNames == <<"member1", "member2", "member3", "member4", "member5", "member6", "member7",
                 "member8">>

\* JoinGroup of the next member id that is not in the group yet
JoinNextMember(group_id, topics, order) ==
    /\ LET joined == IF group_id \in DOMAIN groups_ THEN Len(groups_[group_id].members) ELSE 0
       IN  /\ joined < ManyMembers
           /\ JoinGroup(group_id, MemberNames[joined + 1], topics, order)

RebalanceNext ==
    \/ \E g \in GroupIds, t \in {{"topic1"}, GroupTopics}, o \in TopicOrders :
         JoinNextMember(g, t, o)
    \/ \E g \in GroupIds, o \in TopicOrders : CallRebalanceGroup(g, o)
    \/ Tick

SpecRebalance == GroupInit /\ [][RebalanceNext]_vars

\* the calls that commit and read offsets, on a group that members join and
\* leave and on a group id that is never created
CommitGroupIds == GroupIds \cup {"group2"}
CommitPartitions == {0, 1}
CommitOffsets == 0..MaxCommitOffset

CommitOffsetRequest(group, topic, partition, offset) ==
    [group |-> group, topic |-> topic, partition |-> partition, offset |-> offset]

OffsetNext ==
    \/ \E g \in GroupIds, o \in TopicOrders : JoinGroup(g, "member1", {"topic1"}, o)
    \/ \E g \in GroupIds, o \in TopicOrders : LeaveGroup(g, "member1", o)
    \/ \E g \in CommitGroupIds, t \in GroupTopics, p \in CommitPartitions, o \in CommitOffsets :
         CallCommitOffset(g, t, p, o)
    \/ \E g \in CommitGroupIds, t \in GroupTopics, p \in CommitPartitions :
         CallGetCommittedOffset(g, t, p)
    \/ \E g \in GroupIds \cup {""}, t \in {"topic1", ""}, p \in {-1, 0},
          o \in {-1, MaxCommitOffset} :
         ServiceCommitOffset(CommitOffsetRequest(g, t, p, o))

SpecOffsets == GroupInit /\ [][OffsetNext]_vars

(* ---------------------------------------------------------------------- *)
(* Threads calling the consumer group manager                              *)
(* ---------------------------------------------------------------------- *)
\* the calls whose first statement locks mutex_
LockedCalls ==
    {[op |-> "JoinGroup", group_id |-> g, member_id |-> "member2", topics |-> {"topic1"},
      order |-> o] : g \in GroupIds, o \in TopicOrders}
    \cup {[op |-> "LeaveGroup", group_id |-> g, member_id |-> "member1", order |-> o] :
            g \in GroupIds, o \in TopicOrders}
    \cup {[op |-> "Heartbeat", group_id |-> g, member_id |-> "member1"] : g \in GroupIds}
    \cup {[op |-> "CommitOffset", group_id |-> g, topic |-> "topic1", partition |-> 0,
            offset |-> 1] : g \in GroupIds}
    \cup {[op |-> "CleanupInactiveMembers", orders |-> os] : os \in [GroupIds -> TopicOrders]}

\* the calls that take no lock
UnlockedCalls ==
    {[op |-> "RebalanceGroup", group_id |-> g, order |-> o] : g \in GroupIds, o \in TopicOrders}
    \cup {[op |-> "NeedsRebalancing", group_id |-> g] : g \in GroupIds}

\* the group table after a call made with no other call in progress
CallBody(tbl, call) ==
    IF call.op = "JoinGroup"
    THEN JoinGroupBody(tbl, call.group_id, call.member_id, call.topics, call.order)
    ELSE IF call.op = "LeaveGroup"
    THEN LeaveGroupBody(tbl, call.group_id, call.member_id, call.order)
    ELSE IF call.op = "Heartbeat" THEN HeartbeatBody(tbl, call.group_id, call.member_id)
    ELSE IF call.op = "CommitOffset"
    THEN CommitOffset(tbl, call.group_id, call.topic, call.partition, call.offset).groups
    ELSE IF call.op = "CleanupInactiveMembers" THEN CleanupBody(tbl, call.orders)
    ELSE IF call.op = "RebalanceGroup" THEN RebalanceGroup(tbl, call.group_id, call.order).groups
    ELSE tbl

CgThreadUnchanged ==
    UNCHANGED <<relock, max_segment_size_bytes_, recVars, cgRet, cg0, ldVars, lruVars, idemVars, storeVars,
                rpcVars>>

\* std::lock_guard lock(mutex_) at the head of a call
CgLock(t, call) ==
    /\ cgpc[t] = "idle"
    /\ cg_mutex = 0
    /\ cg_mutex' = t
    /\ cgpc' = [cgpc EXCEPT ![t] = "locked"]
    /\ cgreq' = [cgreq EXCEPT ![t] = call]
    /\ UNCHANGED <<groups_, cgloc>>
    /\ CgThreadUnchanged

\* the rest of the call and the release of the mutex at its return
CgLockedBody(t) ==
    /\ cgpc[t] = "locked"
    /\ groups_' = CallBody(groups_, cgreq[t])
    /\ cg_mutex' = 0
    /\ cgpc' = [cgpc EXCEPT ![t] = "done"]
    /\ UNCHANGED <<cgreq, cgloc>>
    /\ CgThreadUnchanged

\* RebalanceGroup or NeedsRebalancing is entered: no lock is taken
CgUnlockedBegin(t, call) ==
    /\ cgpc[t] = "idle"
    /\ cgreq' = [cgreq EXCEPT ![t] = call]
    /\ cgpc' = [cgpc EXCEPT ![t] = IF call.op = "RebalanceGroup" THEN "evict" ELSE "read"]
    /\ UNCHANGED <<groups_, cg_mutex, cgloc>>
    /\ CgThreadUnchanged

\* NeedsRebalancing reads the table
CgNeedsRebalancing(t) ==
    /\ cgpc[t] = "read"
    /\ cgloc' = [cgloc EXCEPT ![t] = [needed |-> NeedsRebalancing(groups_, cgreq[t].group_id)]]
    /\ cgpc' = [cgpc EXCEPT ![t] = "done"]
    /\ UNCHANGED <<groups_, cg_mutex, cgreq>>
    /\ CgThreadUnchanged

\* RebalanceGroup: the lookup, the removal of the inactive members, and the
\* clearing of the assignments when none is left
CgRebalanceEvict(t) ==
    /\ cgpc[t] = "evict"
    /\ LET g == cgreq[t].group_id
       IN  IF g \notin DOMAIN groups_
           THEN /\ cgpc' = [cgpc EXCEPT ![t] = "done"]
                /\ UNCHANGED groups_
           ELSE \E members \in {SelectSeq(groups_[g].members, IsMemberActive)} :
                  /\ groups_' = [groups_ EXCEPT ![g].members = members,
                                                ![g].assignments =
                                                   IF members = << >> THEN EmptyMap ELSE @]
                  /\ cgpc' = [cgpc EXCEPT ![t] = IF members = << >> THEN "done" ELSE "assign"]
    /\ UNCHANGED <<cg_mutex, cgreq, cgloc>>
    /\ CgThreadUnchanged

\* RebalanceGroup: AssignPartitions(group) builds the new map from the members
CgRebalanceAssign(t) ==
    /\ cgpc[t] = "assign"
    /\ cgloc' = [cgloc EXCEPT ![t] =
                   AssignPartitions(groups_[cgreq[t].group_id], cgreq[t].order)]
    /\ cgpc' = [cgpc EXCEPT ![t] = "store"]
    /\ UNCHANGED <<groups_, cg_mutex, cgreq>>
    /\ CgThreadUnchanged

\* RebalanceGroup: the map is moved into group.assignments
CgRebalanceStore(t) ==
    /\ cgpc[t] = "store"
    /\ groups_' = [groups_ EXCEPT ![cgreq[t].group_id].assignments = cgloc[t],
                                  ![cgreq[t].group_id].last_rebalance = now]
    /\ cgpc' = [cgpc EXCEPT ![t] = "done"]
    /\ UNCHANGED <<cg_mutex, cgreq, cgloc>>
    /\ CgThreadUnchanged

\* a manager in which member1 joined group1 at time 0, at or past its session timeout or before it
GroupThreadsInit ==
    /\ relock = "granted"
    /\ max_segment_size_bytes_ = RecoverSegmentSize
    /\ impl = "plain"
    /\ table_ = EmptyMap
    /\ btable_ = EmptyMap
    /\ lru_queue_ = << >>
    /\ now \in {0, SessionTimeoutMs}
    /\ idemRet = NoCall
    /\ idemOps = 0
    /\ StoreInit
    /\ RpcInit
    /\ RecIdle
    /\ LdIdle
    /\ LruIdle
    /\ cgRet = NoCall
    /\ \E o \in TopicOrders :
         groups_ = [JoinGroupBody(EmptyMap, "group1", "member1", {"topic1"}, o)
                      EXCEPT !["group1"].members[1].last_heartbeat = 0,
                             !["group1"].last_rebalance = 0]
    /\ cg0 = groups_
    /\ cg_mutex = 0
    /\ cgpc = [t \in Threads |-> "idle"]
    /\ cgreq = [t \in Threads |-> NoCall]
    /\ cgloc = [t \in Threads |-> EmptyMap]

GroupThreadsNext ==
    \/ \E t \in Threads, call \in LockedCalls : CgLock(t, call)
    \/ \E t \in Threads : CgLockedBody(t)
    \/ \E t \in Threads, call \in UnlockedCalls : CgUnlockedBegin(t, call)
    \/ \E t \in Threads : CgNeedsRebalancing(t)
    \/ \E t \in Threads : CgRebalanceEvict(t)
    \/ \E t \in Threads : CgRebalanceAssign(t)
    \/ \E t \in Threads : CgRebalanceStore(t)

SpecGroupThreads == GroupThreadsInit /\ [][GroupThreadsNext]_vars

(* ---------------------------------------------------------------------- *)
(* LogDir and Segment called directly                                      *)
(* ---------------------------------------------------------------------- *)
\* Segment::Size
Size(s) == s.log_position

\* the loop of CleanupOldSegments from the segment before the last one down to
\* the first: the number of segments to keep; retention_bytes is compared as a
\* size_t, so a negative one is above every total
RECURSIVE SegmentsToKeep(_, _, _, _, _, _)
SegmentsToKeep(heap, segments, i, total_size, segments_to_keep, retention_bytes) ==
    IF i = 0 THEN segments_to_keep
    ELSE IF retention_bytes >= 0 /\ total_size + Size(heap[segments[i]]) > retention_bytes
    THEN segments_to_keep
    ELSE SegmentsToKeep(heap, segments, i - 1, total_size + Size(heap[segments[i]]),
                        segments_to_keep + 1, retention_bytes)

\* LogDir::CleanupOldSegments: segments is the vector inside the Result that
\* GetSegments returned by value, and the erase acts on that vector
CleanupOldSegments(heap, segs, retention_bytes) ==
    IF Len(segs) <= 1 THEN [status |-> OK, segments |-> segs, segments_ |-> segs]
    ELSE LET keep == SegmentsToKeep(heap, segs, Len(segs) - 1, 0, 1, retention_bytes)
         IN  [status |-> OK,
              segments |-> SubSeq(segs, Len(segs) - keep + 1, Len(segs)),
              segments_ |-> segs]

\* retention sizes: nothing but the active segment, or one full segment more
RetentionSizes == {0, SegmentHeaderSize + BatchSerializedSize(1)}

LdUnchanged ==
    UNCHANGED <<relock, max_segment_size_bytes_, recVars, cgVars, cgThreadVars, lruVars, idemVars,
                rpcVars, high_water_marks_>>

\* LogDir::GetSegment in a build where the second lock of mutex_ is granted
LdGetSegment ==
    /\ relock = "granted"
    /\ logdir_mutex = 0
    /\ \E g \in {GetSegment(segment, files, segments_, max_segment_size_bytes_)} :
         /\ g.id <= MaxSegments
         /\ segment' = g.segment
         /\ files' = g.files
         /\ segments_' = g.segments_
         /\ ldRet' = [op |-> "GetSegment", status |-> OK, id |-> g.id]
    /\ UNCHANGED <<logdir_mutex, faults, ldLocked>>
    /\ LdUnchanged

\* LogDir::GetSegment in a build where the second lock of mutex_ never returns
LdGetSegmentBlocks ==
    /\ relock = "blocks"
    /\ logdir_mutex = 0
    /\ logdir_mutex' = 1
    /\ ldRet' = [op |-> "GetSegment", status |-> "blocked", id |-> 0]
    /\ UNCHANGED <<segment, files, segments_, faults, ldLocked>>
    /\ LdUnchanged

\* LogDir::RollSegment called on its own
LdRollSegment ==
    /\ logdir_mutex = 0
    /\ Len(segment) < MaxSegments
    /\ segments_ # << >> => segments_[Len(segments_)] \notin ldLocked
    /\ \E g \in {RollSegment(segment, files, segments_, max_segment_size_bytes_)} :
         /\ segment' = g.segment
         /\ files' = g.files
         /\ segments_' = g.segments_
         /\ ldRet' = [op |-> "RollSegment", status |-> OK, id |-> g.id]
    /\ UNCHANGED <<logdir_mutex, faults, ldLocked>>
    /\ LdUnchanged

\* Segment::Append through a handle that GetSegment or RollSegment returned
LdAppend(id, n, io) ==
    /\ id \in DOMAIN segment
    /\ id \notin ldLocked
    /\ io # "ok" => faults < MaxFaults
    /\ faults' = IF io = "ok" THEN faults ELSE faults + 1
    /\ \E a \in {SegmentAppend(segment[id], files[segment[id].log_path], Records(0, n), io)} :
         /\ segment' = [segment EXCEPT ![id] = a.seg]
         /\ files' = [files EXCEPT ![segment[id].log_path] = a.file]
         /\ ldRet' = [op |-> "Append", status |-> a.status, id |-> id, value |-> a.value]
    /\ UNCHANGED <<segments_, logdir_mutex, ldLocked>>
    /\ LdUnchanged

\* Segment::Close: the lock, the closed_ test, Flush with its own lock of the
\* same mutex and its fsync, closed_ = true
LdClose(id, io) ==
    /\ id \in DOMAIN segment
    /\ id \notin ldLocked
    /\ IF segment[id].closed
       THEN /\ ldRet' = [op |-> "Close", status |-> OK, id |-> id]
            /\ UNCHANGED <<segment, ldLocked, faults>>
       ELSE IF relock = "blocks"
       THEN /\ ldLocked' = ldLocked \cup {id}
            /\ ldRet' = [op |-> "Close", status |-> "blocked", id |-> id]
            /\ UNCHANGED <<segment, faults>>
       ELSE IF io = "ok"
       THEN /\ segment' = [segment EXCEPT ![id].closed = TRUE]
            /\ ldRet' = [op |-> "Close", status |-> OK, id |-> id]
            /\ UNCHANGED <<ldLocked, faults>>
       ELSE /\ faults < MaxFaults
            /\ faults' = faults + 1
            /\ ldRet' = [op |-> "Close", status |-> INTERNAL, id |-> id]
            /\ UNCHANGED <<segment, ldLocked>>
    /\ UNCHANGED <<files, segments_, logdir_mutex>>
    /\ LdUnchanged

\* LogDir::CleanupOldSegments called on the partition
LdCleanupOldSegments(retention_bytes) ==
    /\ logdir_mutex = 0
    /\ \A i \in DOMAIN segments_ : segments_[i] \notin ldLocked
    /\ \E c \in {CleanupOldSegments(segment, segments_, retention_bytes)} :
         /\ segments_' = c.segments_
         /\ ldRet' = [op |-> "CleanupOldSegments", status |-> c.status,
                       retention_bytes |-> retention_bytes]
    /\ UNCHANGED <<segment, files, logdir_mutex, faults, ldLocked>>
    /\ LdUnchanged

LogDirInit ==
    /\ relock \in {"blocks", "granted"}
    /\ max_segment_size_bytes_ \in SegmentSizes
    /\ impl = "plain"
    /\ IdemInit
    /\ StoreInit
    /\ RpcInit
    /\ RecIdle
    /\ CgIdle
    /\ CgThreadsIdle
    /\ LdIdle
    /\ LruIdle

LogDirNext ==
    \/ LdGetSegment
    \/ LdGetSegmentBlocks
    \/ LdRollSegment
    \/ \E id \in 1..MaxSegments, n \in 1..MaxRecords, io \in IoOutcomes : LdAppend(id, n, io)
    \/ \E id \in 1..MaxSegments, io \in {"ok", "fsync_fails"} : LdClose(id, io)
    \/ \E retention_bytes \in RetentionSizes : LdCleanupOldSegments(retention_bytes)

SpecLogDir == LogDirInit /\ [][LogDirNext]_vars

(* ---------------------------------------------------------------------- *)
(* Properties                                                              *)
(* ---------------------------------------------------------------------- *)
Returns == 1..Len(history)
ProduceOK(h) == h.req.op = "Produce" /\ h.resp.status = OK /\ h.resp.error_code = OK
Replayed(h) == h.req.op = "Produce" /\ h.resp.status = OK /\ h.resp.error_code = IDEMPOTENT_REPLAY
SameProducer(g, h) == g.req.producer_id # "" /\ g.req.producer_id = h.req.producer_id
First(h) == h.resp.base_offset
Past(h) == h.resp.base_offset + Len(h.req.records)
LastReturn == history'[Len(history')]
HighWaterMark == IF Partition \in DOMAIN high_water_marks_ THEN high_water_marks_[Partition] ELSE 0

\* C1: the OK Produce responses of the partition have base offsets >= 0 and
\* pairwise disjoint ranges [base_offset, base_offset + record_count), and a
\* Produce that began after another OK Produce had returned has a strictly
\* greater base offset, segment rolls included.
C1_DisjointIncreasingOffsets ==
    \A i \in Returns : ProduceOK(history[i]) =>
        /\ First(history[i]) >= 0
        /\ \A j \in Returns : (i < j /\ ProduceOK(history[j])) =>
              /\ Past(history[i]) <= First(history[j]) \/ Past(history[j]) <= First(history[i])
              /\ history[j].started >= i => First(history[j]) > First(history[i])

\* two OK Produce calls, the later one begun after the first returned, with a
\* segment roll between them
C1_Witness ==
    \E i, j \in Returns :
        /\ i < j /\ ProduceOK(history[i]) /\ ProduceOK(history[j])
        /\ history[j].started >= i
        /\ Len(segments_) >= 2
        /\ First(history[i]) < segment[segments_[2]].base_offset
        /\ First(history[j]) >= segment[segments_[2]].base_offset

\* C2: the high watermark the LogDir stores for the partition never decreases.
C2_HighWaterMarkNeverDecreases ==
    [][HighWaterMark' >= HighWaterMark]_vars

\* C3: two Produce calls that overlap in time and carry the same non-empty
\* producer id and the same sequence number are never both answered OK.
C3_NoConcurrentDuplicate ==
    \A i, j \in Returns :
        (/\ i < j /\ ProduceOK(history[i]) /\ ProduceOK(history[j])
         /\ history[j].started < i
         /\ SameProducer(history[i], history[j]))
        => history[i].req.sequence # history[j].req.sequence

\* C4: for one producer key the sequence numbers of the OK Produce calls, in
\* the order of their batches in the log, are strictly increasing.
C4_AcceptedSequencesIncrease ==
    \A i, j \in Returns :
        (/\ ProduceOK(history[i]) /\ ProduceOK(history[j])
         /\ SameProducer(history[i], history[j])
         /\ First(history[i]) < First(history[j]))
        => history[i].req.sequence < history[j].req.sequence

\* C5: a Produce whose sequence is <= the sequence cached for its producer key
\* returns IDEMPOTENT_REPLAY at the idempotency check and leaves the log end,
\* the high watermark, the files and the cached producer state as they were;
\* (sequence 0, one record) sent twice in a row leaves one record in the log.
C5_StaleSequenceRejected ==
    /\ [][\A t \in Threads, p \in ProducerIds \ {""}, q \in 0..MaxSeq, n \in 1..MaxRecords :
            (/\ ProducerKey(p, Topic, Partition) \in DOMAIN table_
             /\ q <= table_[ProducerKey(p, Topic, Partition)].last_sequence
             /\ ProduceBegin(t, p, q, Records(0, n)))
            => /\ pc'[t] = "idle"
               /\ Len(history') = Len(history) + 1
               /\ LastReturn.req = ProduceRequest(p, q, Records(0, n))
               /\ Replayed(LastReturn)
               /\ LogEnd' = LogEnd
               /\ HighWaterMark' = HighWaterMark
               /\ files' = files
               /\ table_' = table_]_vars
    /\ [](\A i, j \in Returns :
            (/\ i < j /\ history[j].started >= i /\ ProduceOK(history[i])
             /\ SameProducer(history[i], history[j])
             /\ history[i].req.sequence = 0 /\ history[j].req.sequence = 0
             /\ calls = 2 /\ \A t \in Threads : pc[t] = "idle")
            => Replayed(history[j]) /\ LogEnd = Len(history[i].req.records))

\* (sequence 0, one record) sent twice by one producer, one after the other
C5_Witness ==
    /\ Len(history) = 2 /\ calls = 2
    /\ ProduceOK(history[1]) /\ Replayed(history[2])
    /\ history[2].started = 1
    /\ SameProducer(history[1], history[2])
    /\ history[1].req.sequence = 0 /\ history[2].req.sequence = 0
    /\ Len(history[1].req.records) = 1 /\ Len(history[2].req.records) = 1
    /\ LogEnd = 1

\* C6: the IDEMPOTENT_REPLAY response carries the last_offset cached for the
\* producer key as its base_offset.
C6_ReplayCarriesCachedOffset ==
    [][\A t \in Threads, p \in ProducerIds \ {""}, q \in 0..MaxSeq, n \in 1..MaxRecords :
         (/\ ProducerKey(p, Topic, Partition) \in DOMAIN table_
          /\ ProduceBegin(t, p, q, Records(0, n))
          /\ Len(history') = Len(history) + 1
          /\ Replayed(LastReturn))
         => LastReturn.resp.base_offset = table_[ProducerKey(p, Topic, Partition)].last_offset]_vars

\* C8: a Produce whose sequence is greater than the cached sequence + 1 is
\* answered IDEMPOTENT_REPLAY and does not go on to append.
C8_GapRejected ==
    [][\A t \in Threads, p \in ProducerIds \ {""}, q \in 0..MaxSeq, n \in 1..MaxRecords :
         (/\ ProducerKey(p, Topic, Partition) \in DOMAIN table_
          /\ q > table_[ProducerKey(p, Topic, Partition)].last_sequence + 1
          /\ ProduceBegin(t, p, q, Records(0, n)))
         => /\ pc'[t] = "idle"
            /\ Len(history') = Len(history) + 1
            /\ Replayed(LastReturn)]_vars


\* the entries of the table under test that a call made now would find
LiveEntries ==
    IF impl = "plain" THEN table_
    ELSE [k \in {x \in DOMAIN btable_ : now - btable_[x].timestamp <= ttl_} |-> btable_[k]]

C9_IsValidSequenceReserves ==
    [][\A k \in IdemKeys, q \in 0..MaxSeq :
         (/\ idemRet = IdemCall("IsValidSequence", k, q, TRUE)
          /\ idemOps' = idemOps + 1
          /\ idemRet'.op = "IsValidSequence" /\ idemRet'.key = k /\ idemRet'.sequence = q)
         => ~idemRet'.result]_vars

FetchInProgress == {"scan", "endsegments", "endoffset", "read", "gethwm"}

\* C10: a Fetch on a partition with at least one segment whose offset is at or
\* past the log-end offset returns no batches, OFFSET_OUT_OF_RANGE and a
\* high_watermark that is a log end of the partition: one between the log end
\* when the call began and the log end when it returns, hence the log-end
\* offset itself whenever no Produce moved it during the call.
C10_FetchPastEndOutOfRange ==
    [][\A t \in Threads :
         (/\ pc[t] \in FetchInProgress /\ pc'[t] = "idle"
          /\ req[t].op = "Fetch"
          /\ req[t].offset >= LogEnd)
         => /\ Len(history') = Len(history) + 1
            /\ LastReturn.req = req[t]
            /\ LastReturn.resp.status = OK
            /\ LastReturn.resp.error_code = OFFSET_OUT_OF_RANGE
            /\ LastReturn.resp.batches = << >>
            /\ loc[t].log_end <= LastReturn.resp.high_watermark
            /\ LastReturn.resp.high_watermark <= LogEnd]_vars

\* a Fetch at exactly the log end of a partition that holds records
C10_Witness ==
    \E i \in Returns :
        /\ history[i].req.op = "Fetch"
        /\ history[i].req.offset = LogEnd
        /\ LogEnd >= 1
        /\ history[i].resp = FetchResponse(OK, OFFSET_OUT_OF_RANGE, << >>, LogEnd)

\* C11: once a Produce of n records has returned OK with base_offset b, every
\* Fetch that begins later with offset b and room for the batch returns a
\* first batch with base_offset b holding those n records in order, and a
\* high_watermark >= b + n.
C11_FetchReturnsAcknowledged ==
    \A i, j \in Returns :
        (/\ ProduceOK(history[i])
         /\ history[j].req.op = "Fetch"
         /\ history[j].started >= i
         /\ history[j].req.offset = First(history[i])
         /\ history[j].req.max_bytes = 1048576)
        => /\ history[j].resp.status = OK
           /\ history[j].resp.error_code = OK
           /\ history[j].resp.batches # << >>
           /\ history[j].resp.batches[1].base_offset = First(history[i])
           /\ history[j].resp.batches[1].records = history[i].req.records
           /\ history[j].resp.high_watermark >= Past(history[i])

\* C12: Segment::Read(from_offset, max_bytes) with from_offset inside the
\* segment, in the middle of a batch included, and max_bytes at least the size
\* of that batch returns a non-empty list whose first batch is the one that
\* contains from_offset.
C12_ReadFindsContainingBatch ==
    [][\A t \in Threads :
         (/\ pc[t] = "read" /\ pc'[t] # "read"
          /\ req[t].max_bytes = 1048576)
         => /\ pc'[t] = "gethwm"
            /\ loc'[t].batches # << >>
            /\ loc'[t].batches[1].base_offset <= req[t].offset
            /\ req[t].offset < loc'[t].batches[1].base_offset
                                 + Len(loc'[t].batches[1].records)]_vars

(* ---------------------------------------------------------------------- *)
(* Properties of reopening a segment                                       *)
(* ---------------------------------------------------------------------- *)
\* the whole batches of f up to position limit, in file order
FrameList(f, limit) ==
    LET sq == CHOOSE sq \in [1..Cardinality(Frames(f)) -> Frames(f)] :
                  \A i, j \in DOMAIN sq : i < j => sq[i] < sq[j]
        all == [i \in DOMAIN sq |-> [base_offset |-> f.data[sq[i]].base_offset,
                                     records |-> f.data[sq[i]].records]]
    IN  SelectSeq([i \in DOMAIN sq |-> [at |-> sq[i], batch |-> all[i]]],
                  LAMBDA e : e.at < limit)

RECURSIVE RecordsIn(_)
RecordsIn(frames) ==
    IF frames = << >> THEN 0 ELSE Len(Head(frames).batch.records) + RecordsIn(Tail(frames))

\* a step in which Segment::Open is called on the closed files
OpenStep == ~open_segment.open /\ recRet'.op = "Open"

\* C13: after RecoverTail on a reopened segment every frame left in the log
\* file is a whole valid batch, the in-memory index has exactly one entry per
\* frame left, pointing at its start, and end_offset - base_offset is the
\* number of records in the frames left.
C13_RecoveredSegmentConsistent ==
    (recRet.op = "Open" /\ open_segment.open) =>
        LET seg == open_segment.seg
            frames == FrameList(log_file, log_file.size)
        IN  /\ \A q \in DOMAIN log_file.data \ {0} : q \in Frames(log_file)
            /\ Len(seg.index_entries) = Len(frames)
            /\ \A i \in DOMAIN frames :
                 /\ seg.index_entries[i].file_position = frames[i].at
                 /\ seg.index_entries[i].relative_offset
                      = frames[i].batch.base_offset - seg.base_offset
            /\ seg.end_offset - seg.base_offset = RecordsIn(frames)

\* C14: when a frame of the log file has been corrupted, reopening keeps
\* exactly the frames before it, removes it and everything after it, and the
\* log reads from its base offset through the last frame kept.
C14_CorruptionTruncatesAtFirstBadFrame ==
    [][(OpenStep /\ damage.kind = "corrupt") =>
         LET kept == FrameList(log_file, damage.at)
             seg == open_segment'.seg
         IN  /\ recRet'.status = OK
             /\ FrameList(log_file', log_file'.size) = kept
             /\ \A q \in DOMAIN log_file'.data \ {0} : q \in Frames(log_file')
             /\ SegmentRead(seg, log_file', seg.base_offset, 1048576).status = OK
             /\ SegmentRead(seg, log_file', seg.base_offset, 1048576).batches
                  = [i \in DOMAIN kept |-> kept[i].batch]]_vars

\* C15: when the process ended in the middle of writing a frame after k whole
\* ones, reopening cuts the log file at the end of frame k, Read from the base
\* offset returns exactly the k batches, and end_offset, which the next Append
\* hands out, is the base offset plus the records of the k batches.
C15_PartialFrameRemoved ==
    [][(OpenStep /\ damage.kind = "partial") =>
         LET whole == FrameList(log_file, log_file.size)
             seg == open_segment'.seg
         IN  /\ recRet'.status = OK
             /\ log_file'.size = damage.at
             /\ SegmentRead(seg, log_file', seg.base_offset, 1048576).status = OK
             /\ SegmentRead(seg, log_file', seg.base_offset, 1048576).batches
                  = [i \in DOMAIN whole |-> whole[i].batch]
             /\ seg.end_offset = seg.base_offset + RecordsIn(whole)]_vars

\* C17: whatever the index file holds, the in-memory index of the reopened
\* segment is the one a scan of the valid frames of the log file gives, and
\* every valid batch can be read.
C17_IndexRebuiltFromLog ==
    [][(OpenStep /\ damage.kind = "index") =>
         LET whole == FrameList(log_file, log_file.size)
             seg == open_segment'.seg
         IN  /\ recRet'.status = OK
             /\ Len(seg.index_entries) = Len(whole)
             /\ \A i \in DOMAIN whole :
                  /\ seg.index_entries[i].file_position = whole[i].at
                  /\ seg.index_entries[i].relative_offset
                       = whole[i].batch.base_offset - seg.base_offset
                  /\ SegmentRead(seg, log_file', whole[i].batch.base_offset, 1048576).batches
                       # << >>]_vars

\* C16: the batches acknowledged before the broker is stopped and started
\* again on the same log directory are returned by a Fetch from offset 0 after
\* the restart, and a Produce after the restart gets a base_offset no lower
\* than the log end before it.
C16_RestartKeepsAcknowledged ==
    \A r, j \in Returns :
        (history[r].req.op = "Restart" /\ history[j].started >= r) =>
            /\ \A i \in 1..(r - 1) :
                 (/\ ProduceOK(history[i])
                  /\ First(history[i]) = 0
                  /\ history[j].req.op = "Fetch"
                  /\ history[j].req.offset = 0
                  /\ history[j].req.max_bytes = 1048576)
                 => /\ history[j].resp.status = OK
                    /\ history[j].resp.error_code = OK
                    /\ history[j].resp.batches # << >>
                    /\ history[j].resp.batches[1].base_offset = 0
                    /\ history[j].resp.batches[1].records = history[i].req.records
            /\ ProduceOK(history[j]) => First(history[j]) >= history[r].resp.log_end


(* ---------------------------------------------------------------------- *)
(* Properties of the consumer group manager                                *)
(* ---------------------------------------------------------------------- *)
\* the (topic, partition) pairs in a list of assignments
Pairs(list) ==
    UNION {{<<list[i].topic, list[i].partitions[j]>> : j \in DOMAIN list[i].partitions} :
             i \in DOMAIN list}

\* every partition of the topics in a set
AllPartitions(topics) == {<<t, partitions[j]>> : t \in topics, j \in DOMAIN partitions}

\* C18: in every group, no (topic, partition) pair is in the assignment lists
\* of two different member ids, whatever calls were made
C18_NoPartitionAssignedTwice ==
    \A g \in DOMAIN groups_ :
        \A m1, m2 \in DOMAIN groups_[g].assignments :
            m1 # m2 => Pairs(groups_[g].assignments[m1]) \cap Pairs(groups_[g].assignments[m2]) = {}

\* a member left a group of two: both ids still hold partitions, one is a member
C18_Witness ==
    /\ cgRet.op = "LeaveGroup"
    /\ \E g \in DOMAIN groups_ :
         /\ Len(groups_[g].members) = 1
         /\ Cardinality({m \in DOMAIN groups_[g].assignments :
                           Pairs(groups_[g].assignments[m]) # {}}) = 2

\* a JoinGroup call returns
JoinStep == cgRet'.op = "JoinGroup" /\ now' = now

\* the members of a group other than one member id, before a call
OtherMembers(g, m) ==
    IF g \in DOMAIN groups_
    THEN SelectSeq(groups_[g].members, LAMBDA x : x.member_id # m)
    ELSE << >>

\* the member ids of a group before a call
MembersOf(g) ==
    IF g \in DOMAIN groups_
    THEN {groups_[g].members[i].member_id : i \in DOMAIN groups_[g].members}
    ELSE {}

\* C19: a member that joins a group with no other members is assigned every
\* partition of every topic it subscribed to; when a second member then joins
\* with the same topics, after the call the two members' assignments are
\* disjoint and together hold every partition of those topics
C19_JoinAssignsAllPartitions ==
    [][(JoinStep /\ cgRet'.member_id \notin MembersOf(cgRet'.group_id)) =>
         LET g == cgRet'.group_id
             m == cgRet'.member_id
             topics == cgRet'.topics
             others == OtherMembers(g, m)
             mine == Pairs(GetAssignments(groups_', g, m).value)
         IN  /\ others = << >> => mine = AllPartitions(topics)
             /\ (/\ Len(others) = 1
                 /\ others[1].topics = topics
                 /\ Pairs(GetAssignments(groups_, g, others[1].member_id).value)
                      = AllPartitions(topics)) =>
                   LET theirs == Pairs(GetAssignments(groups_', g, others[1].member_id).value)
                   IN  /\ mine \cap theirs = {}
                       /\ mine \cup theirs = AllPartitions(topics)]_vars

\* a CleanupInactiveMembers call returns
CleanupStep == cgRet'.op = "CleanupInactiveMembers" /\ now' = now

\* the time since the last heartbeat of a member has reached the session timeout
Expired(member) == ~member.active \/ now - member.last_heartbeat >= SessionTimeoutMs

\* C20: CleanupInactiveMembers removes from every group exactly the members
\* whose time since the last heartbeat is at least the session timeout or that
\* are not active, keeps the others, and removes no group: a group whose
\* members all expired stays listed with no members
C20_CleanupRemovesExactlyExpired ==
    [][CleanupStep =>
         /\ ListGroups(groups_') = ListGroups(groups_)
         /\ \A g \in DOMAIN groups_ :
              groups_'[g].members = SelectSeq(groups_[g].members, LAMBDA m : ~Expired(m))]_vars

\* a sweep removed a member at its session timeout and kept another
C20_Witness ==
    /\ cgRet.op = "CleanupInactiveMembers"
    /\ \E g \in ListGroups(groups_) :
         /\ \E m \in MemberIds : <<g, m>> \in cgRet.removed
         /\ Len(groups_[g].members) = 1
         /\ now - groups_[g].members[1].last_heartbeat < SessionTimeoutMs

\* a LeaveGroup call returns OK
LeaveStep == cgRet'.op = "LeaveGroup" /\ cgRet'.status = OK /\ now' = now

\* the member ids of a group after a call
MembersAfter(g) == {groups_'[g].members[i].member_id : i \in DOMAIN groups_'[g].members}

\* C32: after LeaveGroup(g, m) returns for a group that still has other
\* members, m has no assignment and every partition m owned is assigned to
\* exactly one remaining member
C32_LeaveReassignsPartitions ==
    [][(/\ LeaveStep
        /\ cgRet'.member_id \in MembersOf(cgRet'.group_id)
        /\ MembersAfter(cgRet'.group_id) # {}) =>
         LET g == cgRet'.group_id
             m == cgRet'.member_id
         IN  /\ GetAssignments(groups_', g, m).value = << >>
             /\ \A pair \in Pairs(GetAssignments(groups_, g, m).value) :
                  Cardinality({r \in MembersAfter(g) :
                                 pair \in Pairs(GetAssignments(groups_', g, r).value)}) = 1]_vars

\* C33: after CleanupInactiveMembers returns, a group with no members has an
\* empty assignment map; in any other group only current members have
\* assignments and every partition of the subscribed topics is assigned to
\* exactly one of them
C33_CleanupLeavesNoStaleAssignment ==
    [][CleanupStep =>
         \A g \in DOMAIN groups_' :
             IF groups_'[g].members = << >>
             THEN groups_'[g].assignments = EmptyMap
             ELSE /\ DOMAIN groups_'[g].assignments \subseteq MembersAfter(g)
                  /\ \A pair \in AllPartitions(GetGroupTopics(groups_'[g])) :
                       Cardinality({r \in MembersAfter(g) :
                                      pair \in Pairs(GetAssignments(groups_', g, r).value)}) = 1]_vars

\* a RebalanceGroup call returns OK
RebalanceStep == cgRet'.op = "RebalanceGroup" /\ cgRet'.status = OK /\ now' = now

\* C34: after RebalanceGroup(g) returns for a group with at least one member
\* and no expired member, NeedsRebalancing(g) is false and every member has a
\* non-empty assignment, however many members and topics the group has
C34_RebalanceLeavesGroupStable ==
    [][(/\ RebalanceStep
        /\ MembersOf(cgRet'.group_id) # {}
        /\ \A i \in DOMAIN groups_[cgRet'.group_id].members :
             IsMemberActive(groups_[cgRet'.group_id].members[i])) =>
         /\ ~NeedsRebalancing(groups_', cgRet'.group_id)
         /\ \A m \in MembersAfter(cgRet'.group_id) :
              GetAssignments(groups_', cgRet'.group_id, m).value # << >>]_vars

\* C37: after a rebalance the assignment of a member holds only partitions of
\* topics that this member subscribed to
C37_AssignedOnlySubscribedTopics ==
    [][RebalanceStep =>
         \A i \in DOMAIN groups_'[cgRet'.group_id].members :
             LET member == groups_'[cgRet'.group_id].members[i]
             IN  Pairs(GetAssignments(groups_', cgRet'.group_id, member.member_id).value)
                   \subseteq AllPartitions(member.topics)]_vars

\* the topics a member of a group subscribed to before a call
TopicsOf(g, m) ==
    UNION {groups_[g].members[i].topics : i \in MemberIndex(groups_[g], m)}

\* C38: when a member of a group calls JoinGroup again with other topics,
\* after the call the assignments of the group hold exactly the partitions of
\* the topics its members now subscribe to
C38_RejoinFollowsSubscriptions ==
    [][(/\ JoinStep
        /\ cgRet'.member_id \in MembersOf(cgRet'.group_id)
        /\ cgRet'.topics # TopicsOf(cgRet'.group_id, cgRet'.member_id)) =>
         LET group == groups_'[cgRet'.group_id]
         IN  UNION {Pairs(group.assignments[m]) : m \in DOMAIN group.assignments}
               = AllPartitions(GetGroupTopics(group))]_vars

(* ---------------------------------------------------------------------- *)
(* Properties of committed offsets                                         *)
(* ---------------------------------------------------------------------- *)
CommitOps == {"CommitOffset", "Coordinator.CommitOffset"}

\* the call that returns in this step stored an offset for (g, t, p)
Commits(g, t, p) ==
    /\ cgRet'.op \in CommitOps
    /\ cgRet'.status = OK
    /\ cgRet'.group_id = g /\ cgRet'.topic = t /\ cgRet'.partition = p

\* the log end offset of a partition in the broker
LogEndOffset(topic, partition) ==
    IF topic = Topic /\ partition = Partition THEN LogEnd ELSE 0

\* C21: for an existing group, GetCommittedOffset(g, t, p) is the offset of the
\* most recent CommitOffset(g, t, p, .): only such a commit changes the value
\* read, it changes it to its offset, and the value of a (t, p) that was never
\* committed is 0, from the creation of the group on
C21_ReadsLastCommit ==
    [][/\ \A g \in DOMAIN groups_, t \in GroupTopics, p \in CommitPartitions :
            /\ g \in DOMAIN groups_'
            /\ GetCommittedOffset(groups_', g, t, p) =
                 [status |-> OK,
                  value |-> IF Commits(g, t, p) THEN cgRet'.offset
                            ELSE GetCommittedOffset(groups_, g, t, p).value]
       /\ \A g \in DOMAIN groups_' \ DOMAIN groups_, t \in GroupTopics, p \in CommitPartitions :
            GetCommittedOffset(groups_', g, t, p) = [status |-> OK, value |-> 0]]_vars

\* a read returns the second offset committed for its partition, while the
\* other partition of the topic holds another offset and the other topic none
C21_Witness ==
    /\ cgRet.op = "GetCommittedOffset"
    /\ cgRet.status = OK
    /\ cgRet.value = MaxCommitOffset
    /\ \E p \in CommitPartitions, t \in GroupTopics :
         /\ p # cgRet.partition
         /\ t # cgRet.topic
         /\ GetCommittedOffset(groups_, cgRet.group_id, cgRet.topic, p).value
              \in 1..(MaxCommitOffset - 1)
         /\ t \notin DOMAIN groups_[cgRet.group_id].committed_offsets

C23_UncommittedReadsZero ==
    (/\ cgRet.op = "GetCommittedOffset"
     /\ \/ cgRet.group_id \notin DOMAIN groups_
        \/ cgRet.topic \notin DOMAIN groups_[cgRet.group_id].committed_offsets
        \/ cgRet.partition \notin DOMAIN groups_[cgRet.group_id].committed_offsets[cgRet.topic])
    => (cgRet.status = OK /\ cgRet.value = 0)

\* C24: every committed offset stored for (group, topic, partition) is at
\* least 0 and at most the log end offset of the partition
C24_CommittedOffsetWithinLog ==
    \A g \in DOMAIN groups_ :
        \A t \in DOMAIN groups_[g].committed_offsets :
            \A p \in DOMAIN groups_[g].committed_offsets[t] :
                groups_[g].committed_offsets[t][p] \in 0..LogEndOffset(t, p)

(* ---------------------------------------------------------------------- *)
(* Properties of concurrent calls on the consumer group manager            *)
(* ---------------------------------------------------------------------- *)
\* a thread is between the first and the last access to the table of its call
InGroupTable(t) == cgpc[t] \in {"locked", "read", "evict", "assign", "store"}

\* the table after the threads' calls made one after the other, in an order
RECURSIVE CallsInOrder(_, _, _)
CallsInOrder(tbl, order, i) ==
    IF i > NumThreads THEN tbl
    ELSE CallsInOrder(CallBody(tbl, cgreq[order[i]]), order, i + 1)

\* the threads holding the mutex exclude each other
HoldsMutexInGroupTable == \A t \in Threads : InGroupTable(t) => cg_mutex = t

\* once every call returned, the table is the one a sequential order gives
SequentialOutcome ==
    (\A t \in Threads : cgpc[t] = "done") =>
        \E order \in Permutations(Threads) : groups_ = CallsInOrder(cg0, order, 1)

\* C25: every concurrent execution of the public operations is equivalent to
\* a sequential order of them: each call is in the group table only while it
\* holds the mutex, and the table the calls leave is the one that some order
\* of them, one after the other, leaves
C25_CallsAreSerialized == HoldsMutexInGroupTable /\ SequentialOutcome

(* ---------------------------------------------------------------------- *)
(* Properties of segments and their rolling                                *)
(* ---------------------------------------------------------------------- *)
\* thread t is in Produce, the segment it holds has no room for its batch and
\* an empty segment has
RejectedAsFull(t) ==
    /\ pc[t] = "append"
    /\ ~IsClosed(segment[loc[t].seg])
    /\ segment[loc[t].seg].log_position + BatchSerializedSize(Len(req[t].records))
         > segment[loc[t].seg].max_size_bytes
    /\ SegmentHeaderSize + BatchSerializedSize(Len(req[t].records)) <= max_segment_size_bytes_

\* C26: when the active segment rejects the append as full and the batch fits
\* in an empty segment, Produce does not answer with an error: it rolls to a
\* new segment and retries, and the call goes on to its OK response
C26_FullSegmentRollsAndRetries ==
    [][\A t \in Threads :
         (RejectedAsFull(t) /\ pc'[t] # "append") =>
             ~(/\ Len(history') = Len(history) + 1
               /\ LastReturn.req = req[t]
               /\ LastReturn.resp.error_code # OK)]_vars

\* the segments of the partition, in the order of segments_
SegmentAt(i) == segment[segments_[i]]

\* C27: after any sequence of GetSegment, RollSegment and Append calls the
\* segments of a partition are ordered by base offset and each segment begins
\* where the one before it ends.
C27_SegmentsAreContiguous ==
    \A i \in 1..(Len(segments_) - 1) :
        /\ SegmentAt(i).base_offset <= SegmentAt(i + 1).base_offset
        /\ SegmentAt(i + 1).base_offset = SegmentAt(i).end_offset

\* C28: two segments of a partition that begin at different base offsets never
\* use the same log file, so creating a segment never truncates the file of
\* an existing one.
C28_SegmentFilesAreDistinct ==
    \A i, j \in 1..Len(segments_) :
        SegmentAt(i).base_offset # SegmentAt(j).base_offset
            => SegmentAt(i).log_path # SegmentAt(j).log_path

\* a call of Segment::Append on the segment id has just returned
AppendStep(id) ==
    /\ ldRet'.op = "Append"
    /\ ldRet'.id = id
    /\ ldRet' # ldRet \/ segment' # segment \/ faults' # faults

\* C29: once a partition has rolled, no Append on an earlier segment succeeds:
\* only the last segment of segments_ takes records.
C29_OnlyLastSegmentAppends ==
    [][\A id \in DOMAIN segment :
         (AppendStep(id) /\ id # segments_[Len(segments_)]) => ldRet'.status # OK]_vars

\* C40: a Segment::Append that returns an error, the segment being closed or
\* full or a write to the log or to the index failing, leaves end_offset, the
\* size of the segment and the index in memory as they were
C40_FailedAppendChangesNothing ==
    [][\A id \in DOMAIN segment :
         (AppendStep(id) /\ ldRet'.status # OK) =>
            /\ EndOffset(segment'[id]) = EndOffset(segment[id])
            /\ Size(segment'[id]) = Size(segment[id])
            /\ segment'[id].index_entries = segment[id].index_entries]_vars

\* a call of Segment::Close on the segment id has just ended
CloseStep(id) ==
    /\ ldRet'.op = "Close"
    /\ ldRet'.id = id
    /\ ldRet' # ldRet \/ segment' # segment \/ faults' # faults \/ ldLocked' # ldLocked

\* C30: Close on an active segment returns, and after a successful return the
\* segment is closed; Append on a closed segment fails with FailedPrecondition
\* and leaves the segment and its file as they were; Close on a closed segment
\* returns OK.
C30_CloseReturnsAndSeals ==
    [][\A id \in DOMAIN segment :
         /\ CloseStep(id) =>
              /\ ldRet'.status # "blocked"
              /\ ldRet'.status = OK => IsClosed(segment'[id])
              /\ IsClosed(segment[id]) => ldRet'.status = OK /\ segment' = segment
         /\ (AppendStep(id) /\ IsClosed(segment[id])) =>
              /\ ldRet'.status = "FailedPrecondition"
              /\ segment' = segment
              /\ files' = files]_vars


\* C36: LogDir::GetSegment always returns: no call under it locks the LogDir
\* mutex while the calling thread already holds it, so no Produce waits for
\* ever inside the LogDir
C36_GetSegmentReturns ==
    \A t \in Threads : ~(pc[t] = "blocked" /\ logdir_mutex = t)


\* the sizes of the segments of a list, added up
RECURSIVE TotalSize(_, _)
TotalSize(heap, segs) ==
    IF segs = << >> THEN 0 ELSE Size(heap[segs[1]]) + TotalSize(heap, Tail(segs))

\* a CleanupOldSegments call has just returned
RetentionStep == ldRet'.op = "CleanupOldSegments" /\ ldRet' # ldRet

\* C31: after CleanupOldSegments returns, the segment list of the partition
\* is a suffix of the list before the call that still has the active segment,
\* and the segments kept before the active one add up to at most
\* retention_bytes, or only the active segment is left
C31_RetentionDropsOldest ==
    [][(RetentionStep /\ segments_ # << >>) =>
         /\ segments_' # << >>
         /\ segments_' = SubSeq(segments_, Len(segments_) - Len(segments_') + 1, Len(segments_))
         /\ \/ Len(segments_') = 1
            \/ TotalSize(segment', SubSeq(segments_', 1, Len(segments_') - 1))
                 <= ldRet'.retention_bytes]_vars


(* ---------------------------------------------------------------------- *)
(* Properties of the bounded idempotency table                             *)
(* ---------------------------------------------------------------------- *)
\* the entries of the bounded table that a call made now finds not expired
PresentEntries == CleanupExpired(Bounded(btable_, lru_queue_), now).table

C39_RecordedSequenceNeverAccepted ==
    [][(/\ idemOps' = idemOps + 1
        /\ idemRet'.op = "IsValidSequence"
        /\ idemRet'.key \notin lruLog.unordered
        /\ <<idemRet'.key, idemRet'.sequence>> \in lruLog.recorded) => ~idemRet'.result]_vars

====
